---- MODULE Spec2Model ----
(***************************************************************************)
(* File selection and prioritization pipeline of py-github-analyzer:       *)
(* Config classification, LanguageDetector, DependencyExtractor,           *)
(* FilePrioritizer and FileProcessor (src/py_github_analyzer).             *)
(*                                                                         *)
(* Python str values are TLA+ strings; a character is a string of length   *)
(* one.  A Python value that may be of several types is a record with a    *)
(* type tag t ("str", "int", "none", "absent" for a missing dict key).     *)
(***************************************************************************)
EXTENDS Integers, Sequences, FiniteSets, TLC

\* ---------------------------------------------------------------- strings

Ch(s, i) == SubSeq(s, i, i)

LowerCh(c) ==
  CASE c = "A" -> "a" [] c = "B" -> "b" [] c = "C" -> "c" [] c = "D" -> "d"
    [] c = "E" -> "e" [] c = "F" -> "f" [] c = "G" -> "g" [] c = "H" -> "h"
    [] c = "I" -> "i" [] c = "J" -> "j" [] c = "K" -> "k" [] c = "L" -> "l"
    [] c = "M" -> "m" [] c = "N" -> "n" [] c = "O" -> "o" [] c = "P" -> "p"
    [] c = "Q" -> "q" [] c = "R" -> "r" [] c = "S" -> "s" [] c = "T" -> "t"
    [] c = "U" -> "u" [] c = "V" -> "v" [] c = "W" -> "w" [] c = "X" -> "x"
    [] c = "Y" -> "y" [] c = "Z" -> "z" [] OTHER -> c

RECURSIVE Lower(_)
\* str.lower()
Lower(s) == IF s = "" THEN "" ELSE LowerCh(Head(s)) \o Lower(Tail(s))

\* U+0131 LATIN SMALL LETTER DOTLESS I, a letter without an ASCII spelling, is
\* written with this character, which no other name of the model holds.  Python
\* maps it to "I" in upper() and leaves it alone in lower().
DOTLESS_I == "^"

UpperCh(c) ==
  CASE c = "a" -> "A" [] c = "b" -> "B" [] c = "c" -> "C" [] c = "d" -> "D"
    [] c = "e" -> "E" [] c = "f" -> "F" [] c = "g" -> "G" [] c = "h" -> "H"
    [] c = "i" -> "I" [] c = "j" -> "J" [] c = "k" -> "K" [] c = "l" -> "L"
    [] c = "m" -> "M" [] c = "n" -> "N" [] c = "o" -> "O" [] c = "p" -> "P"
    [] c = "q" -> "Q" [] c = "r" -> "R" [] c = "s" -> "S" [] c = "t" -> "T"
    [] c = "u" -> "U" [] c = "v" -> "V" [] c = "w" -> "W" [] c = "x" -> "X"
    [] c = "y" -> "Y" [] c = "z" -> "Z" [] c = DOTLESS_I -> "I" [] OTHER -> c

RECURSIVE Upper(_)
\* str.upper()
Upper(s) == IF s = "" THEN "" ELSE UpperCh(Head(s)) \o Upper(Tail(s))

IsSpace(c) == c \in {" ", "\t", "\n", "\r"}

RECURSIVE LStrip(_)
LStrip(s) == IF s # "" /\ IsSpace(Head(s)) THEN LStrip(Tail(s)) ELSE s

RECURSIVE RStrip(_)
RStrip(s) ==
  IF s # "" /\ IsSpace(Ch(s, Len(s))) THEN RStrip(SubSeq(s, 1, Len(s) - 1)) ELSE s

\* str.strip()
Strip(s) == RStrip(LStrip(s))

\* str.startswith / str.endswith / substring test
StartsWith(s, p) == Len(s) >= Len(p) /\ SubSeq(s, 1, Len(p)) = p
EndsWith(s, p) == Len(s) >= Len(p) /\ SubSeq(s, Len(s) - Len(p) + 1, Len(s)) = p
Contains(s, p) == \E i \in 1..(Len(s) - Len(p) + 1) : SubSeq(s, i, i + Len(p) - 1) = p

\* str.count(c) for a single character c
Count(s, c) == Cardinality({i \in 1..Len(s) : Ch(s, i) = c})

\* 1-based position of the last occurrence of character c in s, 0 when absent
RFind(s, c) ==
  LET hits == {i \in 1..Len(s) : Ch(s, i) = c}
  IN IF hits = {} THEN 0 ELSE CHOOSE i \in hits : \A j \in hits : j <= i

RECURSIVE Split(_, _)
\* str.split(c) for a single character c
Split(s, c) ==
  LET hits == {i \in 1..Len(s) : Ch(s, i) = c}
  IN IF hits = {} THEN <<s>>
     ELSE LET i == CHOOSE k \in hits : \A j \in hits : k <= j
          IN <<SubSeq(s, 1, i - 1)>> \o Split(SubSeq(s, i + 1, Len(s)), c)

SelectSeqNonDot(parts) == SelectSeq(parts, LAMBDA p : p # "" /\ p # ".")

\* pathlib.PurePosixPath(p).parts: empty and "." components are dropped, an
\* absolute path keeps the root as its first part
PathParts(p) ==
  LET comps == SelectSeqNonDot(Split(p, "/"))
  IN IF StartsWith(p, "/") THEN <<"/">> \o comps ELSE comps

\* pathlib.PurePosixPath(p).name
PathName(p) ==
  LET comps == SelectSeqNonDot(Split(p, "/"))
  IN IF comps = <<>> THEN "" ELSE comps[Len(comps)]

\* pathlib.PurePosixPath(p).suffix
PathSuffix(p) ==
  LET name == PathName(p)
      i == RFind(name, ".")
  IN IF 1 < i /\ i < Len(name) THEN SubSeq(name, i, Len(name)) ELSE ""

RECURSIVE LStripDots(_)
LStripDots(s) == IF s # "" /\ Head(s) = "." THEN LStripDots(Tail(s)) ELSE s

\* pathlib.PurePosixPath(p).suffixes
PathSuffixes(p) ==
  LET name == PathName(p)
  IN IF EndsWith(name, ".") THEN <<>>
     ELSE LET pieces == Split(LStripDots(name), ".")
          IN [i \in 1..(Len(pieces) - 1) |-> "." \o pieces[i + 1]]

RECURSIVE Concat(_)
\* "".join(seq)
Concat(seq) == IF seq = <<>> THEN "" ELSE Head(seq) \o Concat(Tail(seq))

\* dict lookup in a table given as a sequence of <<key, value>> pairs
HasKey(table, k) == \E i \in 1..Len(table) : table[i][1] = k
Lookup(table, k) == table[CHOOSE i \in 1..Len(table) : table[i][1] = k][2]
Get(table, k, default) == IF HasKey(table, k) THEN Lookup(table, k) ELSE default

Max(a, b) == IF a >= b THEN a ELSE b
Min(a, b) == IF a <= b THEN a ELSE b

\* ----------------------------------------------------------------- Config

MAX_FILE_SIZE == 10 * 1024 * 1024
MAX_REPOSITORY_SIZE == 500 * 1024 * 1024
MAX_FILES_COUNT == 10000
MAX_TOTAL_SIZE_BYTES == MAX_REPOSITORY_SIZE

SKIP_FILES ==
  {".gitignore", ".gitattributes", ".gitmodules", ".gitkeep", ".DS_Store",
    "Thumbs.db", "desktop.ini", ".npmrc", ".yarnrc", ".bowerrc", ".travis.yml",
    ".appveyor.yml", ".circleci", ".gitlab-ci.yml", ".buildkite", "__pycache__",
    "*.pyc", "*.pyo", "*.pyd", ".coverage", "coverage.xml", ".nyc_output",
    "node_modules", "bower_components", "vendor", ".sass-cache", ".tmp", ".temp",
    "logs", "*.log", "npm-debug.log*", "yarn-debug.log*", "yarn-error.log*"}

SKIP_DIRECTORIES ==
  {".bzr", ".cache", ".coverage", ".eclipse", ".env", ".fossil-settings", ".git", ".hg",
   ".idea", ".netbeans", ".nyc_output", ".parcel-cache", ".pytest_cache", ".sass-cache",
   ".svn", ".temp", ".tmp", ".venv", ".vs", ".vscode", "__pycache__", "bin",
   "bower_components", "build", "coverage", "dist", "env", "log", "logs",
   "node_modules", "obj", "out", "packages", "target", "temp", "tmp", "vendor", "venv",
   "virtualenv"}

SPECIAL_FILES ==
  <<<<"dockerfile", "dockerfile">>, <<"dockerfile.dev", "dockerfile">>,
    <<"dockerfile.prod", "dockerfile">>, <<"dockerfile.test", "dockerfile">>,
    <<".dockerignore", "config">>, <<"docker-compose.yml", "config">>,
    <<"docker-compose.yaml", "config">>, <<"makefile", "config">>,
    <<"cmake", "config">>, <<"cmakelists.txt", "config">>, <<"build.gradle", "java">>,
    <<"build.gradle.kts", "kotlin">>, <<"pom.xml", "java">>, <<"cargo.toml", "rust">>,
    <<"cargo.lock", "rust">>, <<"package.json", "javascript">>,
    <<"package-lock.json", "javascript">>, <<"yarn.lock", "javascript">>,
    <<"requirements.txt", "python">>, <<"pipfile", "python">>,
    <<"pipfile.lock", "python">>, <<"setup.py", "python">>, <<"setup.cfg", "python">>,
    <<"pyproject.toml", "python">>, <<"poetry.lock", "python">>, <<"gemfile", "ruby">>,
    <<"gemfile.lock", "ruby">>, <<"composer.json", "php">>, <<"composer.lock", "php">>,
    <<"go.mod", "go">>, <<"go.sum", "go">>, <<"jenkinsfile", "config">>,
    <<"vagrantfile", "config">>, <<".travis.yml", "config">>, <<".github", "config">>,
    <<"appveyor.yml", "config">>, <<"circle.yml", "config">>,
    <<"azure-pipelines.yml", "config">>, <<"webpack.config.js", "javascript">>,
    <<"rollup.config.js", "javascript">>, <<"babel.config.js", "javascript">>,
    <<"jest.config.js", "javascript">>, <<"tsconfig.json", "typescript">>,
    <<"tslint.json", "typescript">>, <<"eslint.json", "javascript">>,
    <<".eslintrc", "config">>, <<".eslintrc.js", "javascript">>,
    <<".eslintrc.json", "config">>, <<".prettierrc", "config">>,
    <<".editorconfig", "config">>, <<"license", "text">>, <<"licence", "text">>,
    <<"readme", "markdown">>, <<"readme.md", "markdown">>, <<"readme.txt", "text">>,
    <<"changelog", "text">>, <<"changelog.md", "markdown">>, <<"changes", "text">>,
    <<"authors", "text">>, <<"contributors", "text">>>>

MULTI_PART_EXTENSIONS ==
  <<<<".tar.gz", "binary">>, <<".tar.bz2", "binary">>, <<".tar.xz", "binary">>,
    <<".tar.Z", "binary">>, <<".backup", "binary">>, <<".bak", "binary">>,
    <<".old", "binary">>, <<".orig", "binary">>, <<".sample", "config">>,
    <<".template", "config">>, <<".example", "config">>, <<".gitkeep", "config">>,
    <<".gitattributes", "config">>, <<".gitignore", "config">>,
    <<".gitmodules", "config">>>>

BINARY_EXTENSIONS ==
  {".exe", ".dll", ".so", ".dylib", ".a", ".lib", ".o", ".obj", ".com", ".bat",
    ".cmd", ".msi", ".dmg", ".pkg", ".deb", ".rpm", ".zip", ".tar", ".gz", ".bz2",
    ".xz", ".7z", ".rar", ".ace", ".arj", ".cab", ".lzh", ".lha", ".sit", ".sea",
    ".bin", ".hqx", ".uu", ".jpg", ".jpeg", ".png", ".gif", ".bmp", ".svg", ".ico",
    ".tiff", ".tif", ".webp", ".psd", ".ai", ".eps", ".raw", ".cr2", ".nef", ".orf",
    ".sr2", ".mp3", ".mp4", ".avi", ".mov", ".wmv", ".flv", ".mkv", ".webm", ".m4v",
    ".3gp", ".ogv", ".wav", ".flac", ".aac", ".ogg", ".wma", ".pdf", ".doc", ".docx",
    ".xls", ".xlsx", ".ppt", ".pptx", ".odt", ".ods", ".odp", ".rtf", ".pages",
    ".numbers", ".key", ".woff", ".woff2", ".ttf", ".eot", ".otf", ".pfb", ".pfm",
    ".class", ".jar", ".war", ".ear", ".pyc", ".pyo", ".pyd", ".node", ".bundle"}

SUPPORTED_EXTENSIONS ==
  <<<<"python", {".py", ".pyx", ".pyi", ".pyw"}>>,
    <<"javascript", {".js", ".jsx", ".mjs", ".cjs"}>>,
    <<"typescript", {".ts", ".tsx", ".d.ts"}>>, <<"java", {".java"}>>,
    <<"kotlin", {".kt", ".kts"}>>, <<"scala", {".scala"}>>,
    <<"cpp", {".cpp", ".cxx", ".cc", ".c", ".hpp", ".h", ".hxx"}>>,
    <<"csharp", {".cs", ".csx"}>>, <<"go", {".go"}>>, <<"rust", {".rs"}>>,
    <<"php", {".php", ".phtml", ".php3", ".php4", ".php5", ".phps"}>>,
    <<"ruby", {".rb", ".rbw", ".rake"}>>, <<"swift", {".swift"}>>,
    <<"shell", {".sh", ".bash", ".zsh", ".fish", ".csh", ".tcsh"}>>,
    <<"powershell", {".ps1", ".psm1", ".psd1"}>>, <<"sql", {".sql"}>>,
    <<"html", {".html", ".htm", ".xhtml"}>>,
    <<"css", {".css", ".scss", ".sass", ".less", ".styl"}>>,
    <<"markdown", {".md", ".markdown", ".mdown", ".mkd"}>>,
    <<"yaml", {".yml", ".yaml"}>>, <<"json", {".json", ".jsonc", ".json5"}>>,
    <<"xml", {".xml", ".xsd", ".xsl", ".xslt"}>>, <<"toml", {".toml"}>>,
    <<"ini", {".ini", ".cfg", ".conf"}>>, <<"dockerfile", {".dockerfile"}>>,
    <<"text", {".txt", ".text", ".readme"}>>, <<"perl", {".pl", ".pm", ".t"}>>,
    <<"lua", {".lua"}>>, <<"r", {".r", ".R"}>>, <<"matlab", {".m"}>>,
    <<"haskell", {".hs", ".lhs"}>>, <<"erlang", {".erl", ".hrl"}>>,
    <<"elixir", {".ex", ".exs"}>>, <<"clojure", {".clj", ".cljs", ".cljc"}>>,
    <<"scheme", {".scm", ".ss"}>>, <<"lisp", {".lisp", ".lsp"}>>,
    <<"fortran", {".f", ".for", ".f90", ".f95"}>>, <<"pascal", {".pas"}>>,
    <<"ada", {".adb", ".ads"}>>, <<"dart", {".dart"}>>, <<"julia", {".jl"}>>,
    <<"nim", {".nim"}>>, <<"crystal", {".cr"}>>, <<"zig", {".zig"}>>>>

\* the smallest member of a set of positions
First(S) == CHOOSE i \in S : \A j \in S : i <= j

\* The keyword fallback of get_file_category
category_by_keyword(normalized_name) ==
  IF Contains(normalized_name, "test") \/ Contains(normalized_name, "spec")
  THEN "text"
  ELSE IF \E k \in {"config", "conf", "cfg"} : Contains(normalized_name, k)
  THEN "config"
  ELSE "text"

\* the positions of SUPPORTED_EXTENSIONS whose extension set holds suffix
supporting(suffix) ==
  {i \in 1..Len(SUPPORTED_EXTENSIONS) : suffix \in SUPPORTED_EXTENSIONS[i][2]}

\* get_file_category from the suffixes on
category_by_suffix(normalized_name, suffixes, last_suffix, combined_suffix) ==
  IF suffixes # <<>> /\ last_suffix \in BINARY_EXTENSIONS THEN "binary"
  ELSE IF suffixes # <<>> /\ supporting(last_suffix) # {}
  THEN SUPPORTED_EXTENSIONS[First(supporting(last_suffix))][1]
  ELSE IF Len(suffixes) > 1 /\ supporting(combined_suffix) # {}
  THEN SUPPORTED_EXTENSIONS[First(supporting(combined_suffix))][1]
  ELSE category_by_keyword(normalized_name)

\* the positions of MULTI_PART_EXTENSIONS whose extension ends normalized_name
multi_part(normalized_name) ==
  {i \in 1..Len(MULTI_PART_EXTENSIONS) :
     EndsWith(normalized_name, Lower(MULTI_PART_EXTENSIONS[i][1]))}

\* get_file_category of a non-empty filename
category_of(normalized_name, suffixes) ==
  IF normalized_name \in SKIP_FILES THEN "skip"
  ELSE IF HasKey(SPECIAL_FILES, normalized_name)
  THEN Lookup(SPECIAL_FILES, normalized_name)
  ELSE IF multi_part(normalized_name) # {}
  THEN MULTI_PART_EXTENSIONS[First(multi_part(normalized_name))][2]
  ELSE category_by_suffix(normalized_name, suffixes,
                          IF suffixes = <<>> THEN "" ELSE Lower(suffixes[Len(suffixes)]),
                          Lower(Concat(suffixes)))

\* get_file_category comparing the name as it is spelled
category_of_spelling(filename) ==
  IF filename = "" THEN "unknown"
  ELSE category_of(Strip(filename), PathSuffixes(filename))

\* Config.get_file_category
get_file_category(filename) ==
  IF filename = "" THEN "unknown"
  ELSE category_of(Strip(Lower(filename)), PathSuffixes(filename))

\* Config.should_skip_file
should_skip_file(filename) == get_file_category(filename) \in {"skip", "binary"}

\* Config.is_binary_file
is_binary_file(filepath) == get_file_category(filepath) \in {"binary", "skip"}

\* Config.is_excluded_directory
is_excluded_directory(dirname) == Lower(dirname) \in SKIP_DIRECTORIES

\* category_priorities of Config.get_file_priority
CATEGORY_PRIORITIES ==
  <<<<"python", 800>>, <<"javascript", 750>>, <<"typescript", 750>>, <<"java", 700>>,
    <<"cpp", 650>>, <<"csharp", 650>>, <<"go", 650>>, <<"rust", 650>>, <<"php", 600>>,
    <<"ruby", 600>>, <<"dockerfile", 900>>, <<"config", 550>>, <<"markdown", 400>>,
    <<"yaml", 500>>, <<"json", 500>>, <<"xml", 400>>, <<"text", 300>>, <<"binary", 0>>,
    <<"skip", 0>>>>

\* special_bonuses of Config.get_file_priority
SPECIAL_BONUSES ==
  <<<<"readme.md", 300>>, <<"package.json", 200>>, <<"requirements.txt", 200>>,
    <<"dockerfile", 400>>, <<"makefile", 300>>, <<"setup.py", 200>>, <<"main.py", 300>>,
    <<"index.js", 300>>, <<"app.py", 300>>, <<"server.js", 300>>>>

\* the penalty of get_file_priority for test files
test_penalty(filename, base_priority) ==
  IF (Contains(filename, "test") \/ Contains(filename, "spec")) /\ base_priority < 600
  THEN Max(base_priority - 200, 50)
  ELSE base_priority

\* the penalty of get_file_priority for deep nesting
nesting_penalty(depth, base_priority) ==
  IF depth > 3 THEN base_priority - (depth - 3) * 50 ELSE base_priority

\* get_file_priority of a non-empty path whose file name is filename
priority_by_name(filepath, filename) ==
  Max(test_penalty(filename,
                   nesting_penalty(Count(filepath, "/"),
                                   Get(CATEGORY_PRIORITIES, get_file_category(filename), 200)
                                   + Get(SPECIAL_BONUSES, filename, 0))),
      10)

\* Config.get_file_priority
get_file_priority(filepath) ==
  IF filepath = "" THEN 100 ELSE priority_by_name(filepath, Lower(PathName(filepath)))
\* ------------------------------------------------------------ Python values

PyStr(s) == [t |-> "str", v |-> s]
PyInt(n) == [t |-> "int", v |-> n]
PyNone == [t |-> "none", v |-> ""]
\* a key that is missing from a dict
Absent == [t |-> "absent", v |-> ""]

\* dict.get(key, default)
GetOr(field, default) == IF field.t = "absent" THEN default ELSE field

\* truth value of a Python object
Truthy(x) ==
  CASE x.t = "str" -> x.v # ""
    [] x.t = "int" -> x.v # 0
    [] OTHER -> FALSE

\* A FileRecord dict: the three input keys and the enrichment keys the
\* prioritizer adds.
File(path, size, content) ==
  [path |-> path, size |-> size, content |-> content, priority |-> Absent,
   language |-> Absent, complexity |-> Absent, priority_breakdown |-> Absent]

\* the result of a call: either a value or a raised exception
Ok(value) == [raised |-> FALSE, value |-> value]
Raise(exc) == [raised |-> TRUE, value |-> exc]

\* ------------------------------------------------ file contents in use

T_MAIN ==
  "import os\ndef main():\n    print('hi')"

T_HELLO ==
  "print('hello')"

T_FLASK ==
  "from flask import Flask\napp = Flask(__name__)\n\n@app.route('/')\n"
  \o "def index():\n    # home page\n    return 'ok'\n"

T_INI ==
  "[x]\na=1\n"

T_MD ==
  "# Title\n\nSome docs.\n"

T_NOTE ==
  "plain words only"

T_BIN ==
  "\f\f\fa"

T_JAVA ==
  "public class App {\n  public static void main(String[] a) {\n"
  \o "    if (a.length > 0) { run(); }\n  }\n}\n"

T_YAML ==
  "name: demo\nversion: 1\n"

T_REQ ==
  "requests>=2.25.0\nflask==2.3.2\n# comment\n"

T_REQ35 ==
  "pkg35==1.0\npkg34==1.0\npkg33==1.0\npkg32==1.0\npkg31==1.0\n"
  \o "pkg30==1.0\npkg29==1.0\npkg28==1.0\npkg27==1.0\npkg26==1.0\n"
  \o "pkg25==1.0\npkg24==1.0\npkg23==1.0\npkg22==1.0\npkg21==1.0\n"
  \o "pkg20==1.0\npkg19==1.0\npkg18==1.0\npkg17==1.0\npkg16==1.0\n"
  \o "pkg15==1.0\npkg14==1.0\npkg13==1.0\npkg12==1.0\npkg11==1.0\n"
  \o "pkg10==1.0\npkg09==1.0\npkg08==1.0\npkg07==1.0\npkg06==1.0\n"
  \o "pkg05==1.0\npkg04==1.0\npkg03==1.0\npkg02==1.0\npkg01==1.0\n"

T_REQ101 ==
  "a\nb\nc\nd\ne\nf\ng\nh\ni\nj\nk\nl\nm\nn\no\np\nq\nr\ns\nt\nu\nv\nw\n"
  \o "x\ny\nz\nA\nB\nC\nD\nE\nF\nG\nH\nI\nJ\nK\nL\nM\nN\nO\nP\nQ\nR\nS\nT\n"
  \o "U\nV\nW\nX\nY\nZ\n0\n1\n2\n3\n4\n5\n6\n7\n8\n9\naa\nab\nac\nad\nae\n"
  \o "af\nag\nah\nai\naj\nak\nal\nam\nan\nao\nap\naq\nar\nas\nat\nau\nav\n"
  \o "aw\nax\nay\naz\nba\nbb\nbc\nbd\nbe\nbf\nbg\nbh\nbi\nbj\nbk\nbl\nbm\n"

T_PKG ==
  "{\"dependencies\":{\"express\":\"^4.17.1\"}}"

T_PKGODD ==
  "{\"dependencies\":{\"zeta\":\"1\",\".hidden\":\"1\",\"a\":\"1\",\"ab\""
  \o ":\"1\",\"xxxxxxxxxxxxxxxxxxxxxxxxxxxxxxxxxxxxxxxxxxxxxxxxx\":\"1\",\"y"
  \o "yyyyyyyyyyyyyyyyyyyyyyyyyyyyyyyyyyyyyyyyyyyyyyyyy\":\"1\",\"express\":"
  \o "\"1\",\"Alpha\":\"1\",\"@org/pkg\":\"1\"},\"devDependencies\":{\"expre"
  \o "ss\":\"2\",\"jest\":\"1\"}}"

T_PKGBAD ==
  "{\"dependencies\":[\"express\"]}"

T_JS ==
  "import React from 'react'\nconst x = require('lodash/fp')\n"
  \o "import './local'\n"

T_NOPATH ==
  "print('no_path')"

\* Results of the regular-expression scans the code runs on a content string
\* (re.search / re.findall over the literal text), tabulated for the contents in use.
ContentScan(text) ==
  CASE text = T_MAIN ->
       [sniff |-> "python", fw |-> <<>>, cx |-> [python |-> 1, javascript |-> 0, typescript |-> 0, java |-> 0, cpp |-> 0],
        hash_comments |-> 0, slash_comments |-> 0, decl |-> TRUE, imp |-> TRUE,
        fwhits |-> <<>>]
    [] text = "" ->
       [sniff |-> "unknown", fw |-> <<>>, cx |-> [python |-> 0, javascript |-> 0, typescript |-> 0, java |-> 0, cpp |-> 0],
        hash_comments |-> 0, slash_comments |-> 0, decl |-> FALSE, imp |-> FALSE,
        fwhits |-> <<>>]
    [] text = T_INI ->
       [sniff |-> "json", fw |-> <<>>, cx |-> [python |-> 0, javascript |-> 0, typescript |-> 0, java |-> 0, cpp |-> 0],
        hash_comments |-> 0, slash_comments |-> 0, decl |-> FALSE, imp |-> FALSE,
        fwhits |-> <<>>]
    [] text = T_BIN ->
       [sniff |-> "text", fw |-> <<>>, cx |-> [python |-> 0, javascript |-> 0, typescript |-> 0, java |-> 0, cpp |-> 0],
        hash_comments |-> 0, slash_comments |-> 0, decl |-> FALSE, imp |-> FALSE,
        fwhits |-> <<>>]
    [] text = T_HELLO ->
       [sniff |-> "text", fw |-> <<>>, cx |-> [python |-> 0, javascript |-> 0, typescript |-> 0, java |-> 0, cpp |-> 0],
        hash_comments |-> 0, slash_comments |-> 0, decl |-> FALSE, imp |-> FALSE,
        fwhits |-> <<>>]
    [] text = T_NOTE ->
       [sniff |-> "text", fw |-> <<>>, cx |-> [python |-> 0, javascript |-> 0, typescript |-> 0, java |-> 0, cpp |-> 0],
        hash_comments |-> 0, slash_comments |-> 0, decl |-> FALSE, imp |-> FALSE,
        fwhits |-> <<>>]
    [] text = T_NOPATH ->
       [sniff |-> "text", fw |-> <<>>, cx |-> [python |-> 0, javascript |-> 0, typescript |-> 0, java |-> 0, cpp |-> 0],
        hash_comments |-> 0, slash_comments |-> 0, decl |-> FALSE, imp |-> FALSE,
        fwhits |-> <<>>]
    [] text = T_MD ->
       [sniff |-> "text", fw |-> <<>>, cx |-> [python |-> 0, javascript |-> 0, typescript |-> 0, java |-> 0, cpp |-> 0],
        hash_comments |-> 1, slash_comments |-> 0, decl |-> FALSE, imp |-> FALSE,
        fwhits |-> <<>>]
    [] text = T_JAVA ->
       [sniff |-> "java", fw |-> <<>>, cx |-> [python |-> 2, javascript |-> 2, typescript |-> 2, java |-> 4, cpp |-> 2],
        hash_comments |-> 0, slash_comments |-> 0, decl |-> TRUE, imp |-> FALSE,
        fwhits |-> <<>>]
    [] text = T_YAML ->
       [sniff |-> "yaml", fw |-> <<>>, cx |-> [python |-> 0, javascript |-> 0, typescript |-> 0, java |-> 0, cpp |-> 0],
        hash_comments |-> 0, slash_comments |-> 0, decl |-> FALSE, imp |-> FALSE,
        fwhits |-> <<>>]
    [] text = T_FLASK ->
       [sniff |-> "python", fw |-> <<150>>, cx |-> [python |-> 1, javascript |-> 0, typescript |-> 0, java |-> 0, cpp |-> 0],
        hash_comments |-> 1, slash_comments |-> 0, decl |-> TRUE, imp |-> TRUE,
        fwhits |-> <<<<"python", "flask", 4>>>>]
    [] text = T_PKG ->
       [sniff |-> "json", fw |-> <<>>, cx |-> [python |-> 0, javascript |-> 0, typescript |-> 0, java |-> 0, cpp |-> 0],
        hash_comments |-> 0, slash_comments |-> 0, decl |-> FALSE, imp |-> FALSE,
        fwhits |-> <<>>]
    [] text = T_REQ101 ->
       [sniff |-> "text", fw |-> <<>>, cx |-> [python |-> 0, javascript |-> 0, typescript |-> 0, java |-> 0, cpp |-> 0],
        hash_comments |-> 0, slash_comments |-> 0, decl |-> FALSE, imp |-> FALSE,
        fwhits |-> <<>>]
    [] text = T_REQ ->
       [sniff |-> "text", fw |-> <<>>, cx |-> [python |-> 0, javascript |-> 0, typescript |-> 0, java |-> 0, cpp |-> 0],
        hash_comments |-> 1, slash_comments |-> 0, decl |-> FALSE, imp |-> FALSE,
        fwhits |-> <<>>]
    [] text = T_REQ35 ->
       [sniff |-> "text", fw |-> <<>>, cx |-> [python |-> 0, javascript |-> 0, typescript |-> 0, java |-> 0, cpp |-> 0],
        hash_comments |-> 0, slash_comments |-> 0, decl |-> FALSE, imp |-> FALSE,
        fwhits |-> <<>>]
    [] text = T_PKGODD ->
       [sniff |-> "json", fw |-> <<70>>, cx |-> [python |-> 0, javascript |-> 0, typescript |-> 0, java |-> 0, cpp |-> 0],
        hash_comments |-> 0, slash_comments |-> 0, decl |-> FALSE, imp |-> FALSE,
        fwhits |-> <<>>]
    [] text = T_PKGBAD ->
       [sniff |-> "json", fw |-> <<>>, cx |-> [python |-> 0, javascript |-> 0, typescript |-> 0, java |-> 0, cpp |-> 0],
        hash_comments |-> 0, slash_comments |-> 0, decl |-> FALSE, imp |-> FALSE,
        fwhits |-> <<>>]
    [] text = T_JS ->
       [sniff |-> "javascript", fw |-> <<150>>, cx |-> [python |-> 0, javascript |-> 0, typescript |-> 0, java |-> 0, cpp |-> 0],
        hash_comments |-> 0, slash_comments |-> 0, decl |-> FALSE, imp |-> TRUE,
        fwhits |-> <<<<"javascript", "react", 2>>>>]

\* Results of the manifest / import regular expressions and json.loads of the
\* per-language extractors: <<manifest kind, content, raises, names found>>; a pair
\* without a row yields no names.
ManifestScan ==
  <<<<"python-import", T_MAIN, FALSE, {"os"}>>,
    <<"python-import", T_FLASK, FALSE, {"flask"}>>,
    <<"requirements", T_REQ101, FALSE, {"0", "1", "2", "3", "4", "5", "6", "7", "8", "9", "A",
      "B", "C", "D", "E", "F", "G", "H", "I", "J", "K", "L", "M", "N", "O", "P", "Q", "R", "S",
      "T", "U", "V", "W", "X", "Y", "Z", "a", "aa", "ab", "ac", "ad", "ae", "af", "ag", "ah",
      "ai", "aj", "ak", "al", "am", "an", "ao", "ap", "aq", "ar", "as", "at", "au", "av", "aw",
      "ax", "ay", "az", "b", "ba", "bb", "bc", "bd", "be", "bf", "bg", "bh", "bi", "bj", "bk",
      "bl", "bm", "c", "d", "e", "f", "g", "h", "i", "j", "k", "l", "m", "n", "o", "p", "q", "r",
      "s", "t", "u", "v", "w", "x", "y", "z"}>>,
    <<"requirements", T_REQ, FALSE, {"flask", "requests"}>>,
    <<"requirements", T_REQ35, FALSE, {"pkg01", "pkg02", "pkg03", "pkg04", "pkg05", "pkg06",
      "pkg07", "pkg08", "pkg09", "pkg10", "pkg11", "pkg12", "pkg13", "pkg14", "pkg15", "pkg16",
      "pkg17", "pkg18", "pkg19", "pkg20", "pkg21", "pkg22", "pkg23", "pkg24", "pkg25", "pkg26",
      "pkg27", "pkg28", "pkg29", "pkg30", "pkg31", "pkg32", "pkg33", "pkg34", "pkg35"}>>,
    <<"package.json", T_PKGODD, FALSE, {".hidden", "@org/pkg", "Alpha", "a", "ab", "express",
      "jest", "xxxxxxxxxxxxxxxxxxxxxxxxxxxxxxxxxxxxxxxxxxxxxxxxx",
      "yyyyyyyyyyyyyyyyyyyyyyyyyyyyyyyyyyyyyyyyyyyyyyyyyy", "zeta"}>>,
    <<"package.json", T_PKGBAD, TRUE, {}>>,
    <<"js-import", T_JS, FALSE, {"lodash", "react"}>>>>

\* Framework patterns found by re.search in a filename:
\* <<filename, language, framework, number of patterns matching>>; other filenames
\* in use match none.
FrameworkNameScan ==
  <<<<"manage.py", "python", "django", 1>>>>

PoolScenario ==
  {File(PyStr("main.py"), PyInt(40), PyStr(T_MAIN)),
   File(PyStr("image.jpg"), PyInt(500000), PyStr("")),
   File(PyStr("desktop.ini"), PyInt(20), PyStr(T_INI)),
   File(PyStr("sub/desktop.ini"), PyInt(20), PyStr(T_INI)),
   File(PyStr("src/app/__init__.py"), PyInt(0), PyStr(""))}

PoolFilter ==
  {File(PyStr("sub/empty.py"), PyInt(0), PyStr("")),
   File(PyStr("sub/blob"), PyInt(30), PyStr(T_BIN)),
   File(PyStr("../evil.py"), PyInt(40), PyStr(T_MAIN)),
   File(PyStr("huge.py"), PyInt(10485761), PyStr(T_HELLO)),
   File(PyStr("sub/.gitignore"), PyInt(12), PyStr(T_NOTE))}

PoolMalformed ==
  {File(PyStr("valid.py"), PyInt(50), PyStr(T_HELLO)),
   File(PyStr("no_content.js"), Absent, Absent),
   File(PyStr("a.py"), PyStr("50"), PyStr(T_HELLO)),
   File(PyStr("b.py"), PyInt(50), PyInt(123)),
   File(PyStr("c.py"), PyInt(50), PyNone)}

PoolUntyped ==
  {File(Absent, Absent, Absent),
   File(Absent, PyInt(20), PyStr(T_NOPATH)),
   File(PyInt(5), PyInt(50), PyStr(T_HELLO)),
   File(PyStr("notes"), PyInt(50), PyInt(123)),
   File(PyStr("manage.py"), PyNone, PyStr(T_HELLO))}

PoolRanked ==
  {File(PyStr("main.py"), PyInt(40), PyStr(T_MAIN)),
   File(PyStr("util.py"), PyInt(60), PyStr(T_HELLO)),
   File(PyStr("helper.py"), PyInt(60), PyStr(T_HELLO)),
   File(PyStr("docs/guide.md"), PyInt(95), PyStr(T_MD)),
   File(PyStr("notes.txt"), PyInt(9), PyStr(T_NOTE))}

PoolTiers ==
  {File(PyStr("src/App.java"), PyInt(150), PyStr(T_JAVA)),
   File(PyStr("config.yaml"), PyInt(25), PyStr(T_YAML)),
   File(PyStr("web/app.py"), PyInt(110), PyStr(T_FLASK)),
   File(PyStr("a/b/c/d/e/f/g/deep.txt"), PyInt(9), PyStr(T_NOTE)),
   File(PyStr(".env.example"), PyInt(9), PyStr(T_NOTE))}

PoolEmpty ==
  {File(PyStr(".gitkeep"), PyInt(0), PyStr("")),
   File(PyStr("sub/.gitkeep"), PyInt(0), PyStr("")),
   File(PyStr("__init__.py"), PyInt(0), PyStr("")),
   File(PyStr(".keep"), PyInt(0), PyStr("")),
   File(PyStr("empty.txt"), PyInt(0), PyStr(""))}

PoolLanguages ==
  {File(PyStr("docs/manual.md"), PyInt(900), PyStr(T_MD)),
   File(PyStr("app.py"), PyInt(40), PyStr(T_MAIN)),
   File(PyStr("data.json"), PyInt(2000), PyStr(T_PKG)),
   File(PyStr("tiny.py"), PyInt(5), PyStr(T_HELLO)),
   File(PyStr("README"), PyInt(100), PyStr(T_NOTE))}

PoolLimits ==
  {File(PyStr("big.txt"), PyInt(92), PyStr(T_NOTE)),
   File(PyStr("small.txt"), PyInt(8), PyStr(T_NOTE)),
   File(PyStr("dev-requirements.txt"), PyInt(241), PyStr(T_REQ101))}

PoolDeps ==
  {File(PyStr("requirements.txt"), PyInt(40), PyStr(T_REQ)),
   File(PyStr("requirements-dev.txt"), PyInt(400), PyStr(T_REQ35)),
   File(PyStr("package.json"), PyInt(300), PyStr(T_PKGODD)),
   File(PyStr("web/package.json"), PyInt(30), PyStr(T_PKGBAD)),
   File(PyStr("src/index.js"), PyInt(80), PyStr(T_JS))}
\* -------------------------------------------------- FileProcessor: filtering

\* ValidationUtils.validate_file_path
validate_file_path(file_path) ==
  IF ~Truthy(file_path) THEN Ok(FALSE)
  ELSE IF file_path.t # "str" THEN Raise("TypeError")
  ELSE LET p == file_path.v
       IN Ok(~ \/ Contains(p, "..")
               \/ StartsWith(p, "/")
               \/ (Len(p) > 1 /\ Ch(p, 2) = ":")
               \/ Contains(p, "\\")
               \/ StartsWith(p, "./")
               \/ Contains(p, "/./"))

\* FileProcessor._is_likely_binary: local binary_extensions set
LIKELY_BINARY_EXTENSIONS ==
  {".exe", ".dll", ".so", ".dylib", ".bin", ".img", ".iso", ".zip", ".tar", ".gz",
   ".rar", ".7z", ".jpg", ".jpeg", ".png", ".gif", ".bmp", ".svg", ".ico", ".mp3",
   ".mp4", ".avi", ".mov", ".pdf", ".doc", ".docx", ".xls", ".xlsx", ".ppt", ".pptx"}

\* characters below 0x20 other than \n \r \t that a TLA+ string can hold
NonPrintable(c) == c = "\f"

\* FileProcessor._is_likely_binary (path is a str here)
is_likely_binary(path, content) ==
  IF path = "" THEN Ok(FALSE)
  ELSE IF Lower(PathSuffix(path)) \in LIKELY_BINARY_EXTENSIONS THEN Ok(TRUE)
  ELSE IF ~Truthy(content) THEN Ok(FALSE)
  ELSE IF content.t # "str" THEN Raise("TypeError")
  ELSE LET sample == SubSeq(content.v, 1, Min(Len(content.v), 1000))
           non_printable == Cardinality({i \in 1..Len(sample) : NonPrintable(Ch(sample, i))})
       IN Ok(10 * non_printable > 3 * Len(sample))

\* FileProcessor._is_important_empty_file
is_important_empty_file(path) ==
  Lower(PathName(path)) \in {"__init__.py", ".gitkeep", ".keep"}

\* The checks of the loop of _apply_basic_filtering on a file with a usable
\* path, binary being the outcome of _is_likely_binary
filter_checks(path, size, binary) ==
  IF size.t # "int" THEN "TypeError"
  ELSE IF size.v > MAX_FILE_SIZE THEN "drop"
  ELSE IF should_skip_file(path) THEN "drop"
  ELSE IF binary.raised THEN "TypeError"
  ELSE IF binary.value THEN "drop"
  ELSE IF size.v = 0 /\ ~is_important_empty_file(path) THEN "drop"
  ELSE "keep"

\* The loop body of _apply_basic_filtering, valid being the outcome of _is_valid_path
filter_fields(path, size, content, valid) ==
  IF valid.raised THEN "TypeError"
  ELSE IF ~valid.value THEN "drop"
  ELSE filter_checks(path.v, size, is_likely_binary(path.v, content))

\* One iteration of the loop of FileProcessor._apply_basic_filtering:
\* "keep", "drop" or the exception raised
filter_one(file_info) ==
  filter_fields(GetOr(file_info.path, PyStr("")), GetOr(file_info.size, PyInt(0)),
                GetOr(file_info.content, PyStr("")),
                validate_file_path(GetOr(file_info.path, PyStr(""))))

\* valid_files after one iteration, given the iteration's verdict and the
\* outcome of the rest of the loop
filter_step(file_info, verdict, rest) ==
  IF verdict \notin {"keep", "drop"} THEN Raise(verdict)
  ELSE IF rest.raised THEN rest
  ELSE IF verdict = "keep" THEN Ok(<<file_info>> \o rest.value)
  ELSE rest

RECURSIVE apply_basic_filtering(_)
\* FileProcessor._apply_basic_filtering
apply_basic_filtering(files) ==
  IF files = <<>> THEN Ok(<<>>)
  ELSE filter_step(Head(files), filter_one(Head(files)), apply_basic_filtering(Tail(files)))

\* --------------------------------------------------------- sorting helpers

RECURSIVE InsertDesc(_, _)
\* insert the pair x = <<key, item>> behind every pair whose key is >= x's key
InsertDesc(sorted, x) ==
  IF sorted = <<>> THEN <<x>>
  ELSE IF Head(sorted)[1] >= x[1] THEN <<Head(sorted)>> \o InsertDesc(Tail(sorted), x)
  ELSE <<x>> \o sorted

RECURSIVE SortedDesc(_)
\* sorted(pairs, key=lambda x: x[1], reverse=True) of Python: stable, descending
\* (pairs are <<key, item>>)
SortedDesc(pairs) ==
  IF pairs = <<>> THEN <<>>
  ELSE InsertDesc(SortedDesc(SubSeq(pairs, 1, Len(pairs) - 1)), pairs[Len(pairs)])

\* --------------------------------------------------------- LanguageDetector

CODE_EXTENSIONS ==
  {".py", ".js", ".ts", ".tsx", ".jsx", ".java", ".cpp", ".c", ".h", ".hpp",
   ".cs", ".go", ".rs", ".php", ".rb", ".swift", ".kt", ".scala", ".clj",
   ".hs", ".ml", ".elm", ".dart", ".lua", ".r", ".m", ".sh", ".ps1", ".bat"}

DATA_EXTENSIONS ==
  {".json", ".xml", ".yaml", ".yml", ".toml", ".ini", ".conf", ".cfg",
   ".csv", ".tsv", ".sql", ".log", ".txt"}

MARKUP_EXTENSIONS == {".html", ".htm", ".xhtml", ".xml", ".svg", ".md", ".rst", ".tex"}

EXTENSION_MAP ==
  <<<<".py", "python">>, <<".pyx", "python">>, <<".pyi", "python">>,
    <<".js", "javascript">>, <<".jsx", "javascript">>, <<".mjs", "javascript">>,
    <<".ts", "typescript">>, <<".tsx", "typescript">>, <<".java", "java">>,
    <<".cpp", "cpp">>, <<".cxx", "cpp">>, <<".cc", "cpp">>, <<".c", "cpp">>,
    <<".hpp", "cpp">>, <<".h", "cpp">>, <<".hxx", "cpp">>, <<".cs", "csharp">>,
    <<".go", "go">>, <<".rs", "rust">>, <<".php", "php">>, <<".phtml", "php">>,
    <<".rb", "ruby">>, <<".rake", "ruby">>, <<".swift", "swift">>,
    <<".kt", "kotlin">>, <<".kts", "kotlin">>, <<".scala", "scala">>,
    <<".sh", "shell">>, <<".bash", "shell">>, <<".zsh", "shell">>,
    <<".ps1", "powershell">>, <<".psm1", "powershell">>, <<".html", "html">>,
    <<".htm", "html">>, <<".xhtml", "html">>, <<".css", "css">>, <<".scss", "css">>,
    <<".sass", "css">>, <<".less", "css">>, <<".json", "json">>, <<".xml", "xml">>,
    <<".yml", "yaml">>, <<".yaml", "yaml">>, <<".md", "markdown">>,
    <<".markdown", "markdown">>, <<".txt", "text">>, <<".sql", "sql">>,
    <<".dockerfile", "dockerfile">>>>

\* LanguageDetector.detect_language_by_extension, for any Python value
detect_language_by_extension(filename) ==
  IF ~Truthy(filename) THEN Ok("unknown")
  ELSE IF filename.t # "str" THEN Raise("TypeError")
  ELSE Ok(Get(EXTENSION_MAP, Lower(PathSuffix(filename.v)), "unknown"))

\* LanguageDetector.detect_language_by_content, for any Python values
detect_language_by_content(content, filename) ==
  LET ext_lang == detect_language_by_extension(filename)
  IN IF ~Truthy(content) THEN Ok("unknown")
     ELSE IF Truthy(filename) /\ ext_lang.raised THEN ext_lang
     ELSE IF Truthy(filename) /\ ext_lang.value # "unknown" THEN ext_lang
     ELSE IF content.t # "str" THEN Raise("TypeError")
     ELSE Ok(ContentScan(content.v).sniff)

IsLineBreak(c) == c \in {"\n", "\r", "\f"}

\* len(content.splitlines())
NumLines(s) ==
  IF s = "" THEN 0
  ELSE Cardinality({i \in 1..Len(s) : IsLineBreak(Ch(s, i))
                                       /\ ~(Ch(s, i) = "\r" /\ i < Len(s) /\ Ch(s, i + 1) = "\n")})
       + (IF IsLineBreak(Ch(s, Len(s))) THEN 0 ELSE 1)

\* A float that is the quotient of two integers is kept as <<numerator, denominator>>.
\* LanguageDetector.calculate_complexity (content is a str): min(1 + 9 * count / lines, 10)
calculate_complexity(content, language) ==
  LET total_lines == NumLines(content)
      scan == ContentScan(content).cx
      complexity_count ==
        IF language \in {"python", "javascript", "typescript", "java", "cpp"}
        THEN scan[language] ELSE scan["python"]
  IN IF content = "" \/ Strip(content) = "" \/ total_lines = 0 THEN <<1, 1>>
     ELSE IF total_lines + 9 * complexity_count >= 10 * total_lines THEN <<10, 1>>
     ELSE <<total_lines + 9 * complexity_count, total_lines>>

\* LanguageDetector._get_primary_extension_for_language
get_primary_extension_for_language(language) ==
  Get(<<<<"python", ".py">>, <<"javascript", ".js">>, <<"typescript", ".ts">>,
        <<"java", ".java">>, <<"cpp", ".cpp">>, <<"csharp", ".cs">>, <<"go", ".go">>,
        <<"rust", ".rs">>, <<"php", ".php">>, <<"ruby", ".rb">>, <<"json", ".json">>,
        <<"xml", ".xml">>, <<"yaml", ".yml">>, <<"html", ".html">>, <<"css", ".css">>,
        <<"markdown", ".md">>>>, language, ".txt")

\* language = detect_language_by_extension(name); if language == "unknown" and
\* content: language = detect_language_by_content(content, name)
sniff_if_unknown(by_ext, content, name) ==
  IF ~by_ext.raised /\ by_ext.value = "unknown" /\ Truthy(content)
  THEN detect_language_by_content(content, name)
  ELSE by_ext

\* detection of a file's language from its path or name and its content
detect_language(name, content) ==
  sniff_if_unknown(detect_language_by_extension(name), content, name)

\* The statistics a file adds in detect_languages, once its language is known
language_entry(path, size, language) ==
  IF language.raised THEN language
  ELSE IF path.t # "str" THEN Raise("TypeError")
  ELSE Ok([skip |-> FALSE, language |-> language.value, size |-> size.v,
           code |-> Lower(PathSuffix(path.v)) \in CODE_EXTENSIONS])

\* What detect_languages reads of one file
language_of_fields(path, size, content) ==
  IF size.t # "int" THEN Raise("TypeError")
  ELSE IF size.v < 10 THEN Ok([skip |-> TRUE, language |-> "", size |-> 0, code |-> FALSE])
  ELSE language_entry(path, size, detect_language(path, content))

\* One iteration of the accumulation loop of detect_languages: the exception
\* raised, or the file's language, size and code flag (skip for a file below 10 bytes).
language_of_file(file_item) ==
  language_of_fields(GetOr(file_item.path, PyStr("")), GetOr(file_item.size, PyInt(0)),
                     GetOr(file_item.content, PyStr("")))

\* language_stats[language] updated with one file f of that language
add_file(e, f) ==
  [language |-> e.language, size |-> e.size + f.size, count |-> e.count + 1,
   code_size |-> e.code_size + (IF f.code THEN f.size ELSE 0),
   code_count |-> e.code_count + (IF f.code THEN 1 ELSE 0)]

\* the defaultdict entry of a language seen for the first time
new_language(language) ==
  [language |-> language, size |-> 0, count |-> 0, code_size |-> 0, code_count |-> 0]

\* One more file f counted into the per-language statistics
count_file(stats, f) ==
  IF \E i \in 1..Len(stats) : stats[i].language = f.language
  THEN [i \in 1..Len(stats) |->
          IF stats[i].language = f.language THEN add_file(stats[i], f) ELSE stats[i]]
  ELSE Append(stats, add_file(new_language(f.language), f))

\* One iteration of the accumulation loop of detect_languages, before being the
\* outcome of the earlier iterations and this the outcome of language_of_file
accumulate_language(before, this) ==
  IF before.raised THEN before
  ELSE IF this.raised THEN this
  ELSE IF this.value.skip THEN before
  ELSE Ok(count_file(before.value, this.value))

RECURSIVE language_stats(_)
\* The accumulation loop of detect_languages: per language, in order of first
\* appearance, [language, size, count, code_size, code_count]
language_stats(files) ==
  IF files = <<>> THEN Ok(<<>>)
  ELSE accumulate_language(language_stats(SubSeq(files, 1, Len(files) - 1)),
                           language_of_file(files[Len(files)]))

RECURSIVE Digits(_, _, _)
\* the first k decimal digits of n / d (0 <= n < d), as a number
Digits(n, d, k) ==
  IF k = 0 THEN 0
  ELSE ((n * 10) \div d) * (10 ^ (k - 1)) + Digits((n * 10) % d, d, k - 1)

\* n / d * 100 in units of 0.001 percent (the float of the code, cut after the
\* third decimal); 0 when d is 0
Percentage(n, d) ==
  IF d <= 0 THEN 0 ELSE IF n >= d THEN 100000 ELSE Digits(n, d, 5)

RECURSIVE SumField(_, _)
SumField(stats, field) ==
  IF stats = <<>> THEN 0 ELSE Head(stats)[field] + SumField(Tail(stats), field)

\* round(x, n) on a non-negative quantity held in units of 1 / unit: the nearest
\* multiple of unit
RoundDiv(x, unit) == (2 * x + unit) \div (2 * unit)

\* The weighted percentage of one language in tenths of a percent after the 3%
\* threshold and the data-language penalty; -1 when the language is dropped
weighted_percentage(stats, all) ==
  LET size_percentage == Percentage(stats.size, SumField(all, "size"))
      count_percentage == Percentage(stats.count, SumField(all, "count"))
      code_size_percentage == Percentage(stats.code_size, SumField(all, "code_size"))
      code_count_percentage == Percentage(stats.code_count, SumField(all, "code_count"))
      \* in units of 0.0001 percent
      weighted ==
        IF SumField(all, "code_size") > 0 /\ stats.code_size > 0
        THEN size_percentage * 4 + count_percentage * 2
             + code_size_percentage * 3 + code_count_percentage * 1
        ELSE size_percentage * 6 + count_percentage * 4
      penalised ==
        IF stats.code_count = 0 /\ stats.count > 0
           /\ get_primary_extension_for_language(stats.language) \in DATA_EXTENSIONS
        THEN (weighted * 7) \div 10 ELSE weighted
  IN IF weighted >= 30000 THEN RoundDiv(penalised, 1000) ELSE -1

\* The percentage loop of detect_languages: language_percentages in dict order,
\* as <<percentage in tenths of a percent, language>>
language_percentages(all) ==
  SelectSeq([i \in 1..Len(all) |-> <<weighted_percentage(all[i], all), all[i].language>>],
            LAMBDA p : p[1] >= 0)

\* language_stats[lang]["code_count"]
code_count_of(all, lang) ==
  all[CHOOSE i \in 1..Len(all) : all[i].language = lang].code_count

\* The redistribution of detect_languages from a dominating data language to
\* the code languages
redistribute(all, sorted_languages, redistribution) ==
  LET code_languages == {i \in 1..Len(sorted_languages) :
                           code_count_of(all, sorted_languages[i][2]) > 0}
  IN [i \in 1..Len(sorted_languages) |->
        IF i = 1 THEN <<sorted_languages[i][1] - redistribution, sorted_languages[i][2]>>
        ELSE IF i \in code_languages
        THEN <<sorted_languages[i][1] + RoundDiv(redistribution, Cardinality(code_languages)),
               sorted_languages[i][2]>>
        ELSE sorted_languages[i]]

\* a balancing that hands the whole share of the top language to the code languages
hands_over_top(all, sorted_languages) ==
  IF sorted_languages = <<>> THEN sorted_languages
  ELSE redistribute(all, sorted_languages, sorted_languages[1][1])

\* The final balancing of detect_languages
balance_languages(all, sorted_languages) ==
  IF sorted_languages = <<>> THEN sorted_languages
  ELSE IF sorted_languages[1][1] > 700 /\ code_count_of(all, sorted_languages[1][2]) = 0
  THEN redistribute(all, sorted_languages, Min(sorted_languages[1][1] - 500, 200))
  ELSE sorted_languages

\* detect_languages after its accumulation loop
languages_from(acc) ==
  IF acc.raised THEN acc
  ELSE Ok(SortedDesc(balance_languages(acc.value,
                                       SortedDesc(language_percentages(acc.value)))))

\* LanguageDetector.detect_languages: the returned dict as a sequence of
\* <<percentage in tenths of a percent, language>> in dict order
detect_languages(files) == languages_from(language_stats(files))

\* next(iter(languages.keys())) if languages else "unknown"
first_language(languages) ==
  IF languages.raised THEN languages
  ELSE IF languages.value = <<>> THEN Ok("unknown")
  ELSE Ok(languages.value[1][2])

\* LanguageDetector.detect_primary_language
detect_primary_language(files) == first_language(detect_languages(files))

\* LanguageDetector.framework_patterns: the frameworks registered per language
FRAMEWORKS ==
  <<<<"python", <<"django", "flask", "fastapi", "pytest">>>>,
    <<"javascript", <<"react", "vue", "angular", "express", "nextjs">>>>,
    <<"typescript", <<"angular", "nestjs">>>>>>

RECURSIVE SumHits(_, _, _)
SumHits(rows, key, at) ==
  IF rows = <<>> THEN 0
  ELSE (IF SubSeq(Head(rows), 1, Len(key)) = key THEN Head(rows)[at] ELSE 0)
       + SumHits(Tail(rows), key, at)

\* the score one file adds to one framework in detect_frameworks
framework_score(file_info, language, framework) ==
  LET path == GetOr(file_info.path, PyStr(""))
      content == GetOr(file_info.content, PyStr(""))
  IN IF ~Truthy(content) THEN 0
     ELSE 2 * SumHits(FrameworkNameScan, <<Lower(PathName(path.v)), language, framework>>, 4)
          + SumHits(ContentScan(content.v).fwhits, <<language, framework>>, 3)

RECURSIVE TotalScore(_, _, _)
TotalScore(files, language, framework) ==
  IF files = <<>> THEN 0
  ELSE framework_score(Head(files), language, framework)
       + TotalScore(Tail(files), language, framework)

\* position of the first file that gives the framework a positive score
FirstScored(files, language, framework) ==
  First({i \in 1..Len(files) : framework_score(files[i], language, framework) > 0})

\* framework_scores of detect_frameworks as <<total score, first scoring file,
\* position in the table, framework>>, for the frameworks with a positive score
framework_scores(files, language, names) ==
  SelectSeq([k \in 1..Len(names) |->
               IF TotalScore(files, language, names[k]) > 0
               THEN <<TotalScore(files, language, names[k]),
                      FirstScored(files, language, names[k]), k, names[k]>>
               ELSE <<0, 0, k, names[k]>>],
            LAMBDA s : s[1] > 0)

\* dict order of framework_scores: a key enters at the first file that scores
\* for it, and within a file in table order
in_dict_order(scores) ==
  [r \in 1..Len(scores) |->
     scores[CHOOSE k \in 1..Len(scores) :
              Cardinality({j \in 1..Len(scores) :
                             \/ scores[j][2] < scores[k][2]
                             \/ (scores[j][2] = scores[k][2] /\ scores[j][3] < scores[k][3])})
              = r - 1]]

\* the frameworks scoring at least 3, best first, as <<score, framework>>
ranked_frameworks(scores) ==
  SortedDesc(SelectSeq([r \in 1..Len(scores) |-> <<scores[r][1], scores[r][4]>>],
                       LAMBDA p : p[1] >= 3))

\* the first three names of a ranking
top_three(ranked) == [i \in 1..Min(Len(ranked), 3) |-> ranked[i][2]]

\* LanguageDetector.detect_frameworks with a primary language given, on files
\* whose path and content are str or missing
detect_frameworks(files, primary_language) ==
  IF ~HasKey(FRAMEWORKS, primary_language) THEN <<>>
  ELSE top_three(ranked_frameworks(in_dict_order(
         framework_scores(files, primary_language, Lookup(FRAMEWORKS, primary_language)))))
\* ------------------------------------------------------ DependencyExtractor

\* printable ASCII in code point order: 0x20..0x5F and 0x61..0x7E
ASCII_LOW == " !\"#$%&'()*+,-./0123456789:;<=>?@ABCDEFGHIJKLMNOPQRSTUVWXYZ[\\]^_"
ASCII_HIGH == "abcdefghijklmnopqrstuvwxyz{|}~"

\* ord(c) of Python for a printable ASCII character
Ord(c) ==
  IF Contains(ASCII_LOW, c)
  THEN 31 + (CHOOSE i \in 1..Len(ASCII_LOW) : Ch(ASCII_LOW, i) = c)
  ELSE 96 + (CHOOSE i \in 1..Len(ASCII_HIGH) : Ch(ASCII_HIGH, i) = c)

\* a < b for Python str (lexicographic by code point)
StrLess(a, b) ==
  LET diff == {i \in 1..Min(Len(a), Len(b)) : Ch(a, i) # Ch(b, i)}
      k == CHOOSE i \in diff : \A j \in diff : i <= j
  IN IF diff = {} THEN Len(a) < Len(b) ELSE Ord(Ch(a, k)) < Ord(Ch(b, k))

RECURSIVE InsertString(_, _)
\* a sorted list with one more string put in its place
InsertString(sorted, s) ==
  IF sorted = <<>> THEN <<s>>
  ELSE IF StrLess(s, Head(sorted)) THEN <<s>> \o sorted
  ELSE <<Head(sorted)>> \o InsertString(Tail(sorted), s)

RECURSIVE SortedStrings(_)
\* sorted(strings) of Python for a collection without duplicates
SortedStrings(S) ==
  IF S = {} THEN <<>>
  ELSE InsertString(SortedStrings(S \ {CHOOSE s \in S : TRUE}), CHOOSE s \in S : TRUE)

\* DependencyExtractor.extractors: languages with a registered parser
EXTRACTOR_LANGUAGES == {"python", "javascript", "typescript", "java", "go", "rust", "csharp"}

\* The branch an extractor takes for a (lower-cased) filename: which manifest or
\* import scan it runs, "none" when it reads nothing
manifest_kind(language, filename) ==
  CASE language = "python" ->
         IF filename \in {"requirements.txt", "requirements-dev.txt", "dev-requirements.txt"}
         THEN "requirements"
         ELSE IF filename = "setup.py" THEN "setup.py"
         ELSE IF filename = "pyproject.toml" THEN "pyproject.toml"
         ELSE IF EndsWith(filename, ".py") THEN "python-import"
         ELSE "none"
    [] language \in {"javascript", "typescript"} ->
         IF filename = "package.json" THEN "package.json"
         ELSE IF \E e \in {".js", ".ts", ".jsx", ".tsx"} : EndsWith(filename, e)
         THEN "js-import"
         ELSE "none"
    [] language = "java" ->
         IF filename = "pom.xml" THEN "pom.xml"
         ELSE IF filename \in {"build.gradle", "build.gradle.kts"} THEN "gradle"
         ELSE "none"
    [] language = "go" ->
         IF filename = "go.mod" THEN "go.mod"
         ELSE IF EndsWith(filename, ".go") THEN "go-import"
         ELSE "none"
    [] language = "rust" -> IF filename = "cargo.toml" THEN "cargo.toml" ELSE "none"
    [] language = "csharp" -> IF EndsWith(filename, ".csproj") THEN "csproj" ELSE "none"

\* self.extractors[language](file_info): the set of names found, or an exception
extract_file_deps(file_info, language) ==
  LET path == GetOr(file_info.path, PyStr(""))
      content == GetOr(file_info.content, PyStr(""))
      kind == manifest_kind(language, Lower(PathName(path.v)))
      rows == {i \in 1..Len(ManifestScan) :
                 ManifestScan[i][1] = kind /\ ManifestScan[i][2] = content.v}
      row == ManifestScan[CHOOSE i \in rows : TRUE]
  IN IF path.t # "str" THEN Raise("TypeError")
     ELSE IF kind = "none" THEN Ok({})
     ELSE IF content.t # "str" THEN Raise("TypeError")
     ELSE IF rows = {} THEN Ok({})
     ELSE IF row[3] THEN Raise("AttributeError")
     ELSE Ok(row[4])

RECURSIVE accumulate_deps(_, _, _)

\* One iteration of the loop of extract_dependencies, deps being the outcome of
\* the extractor on the first file
accumulate_file(files, language, all_deps, deps) ==
  IF deps.raised THEN accumulate_deps(Tail(files), language, all_deps)
  ELSE IF Cardinality(all_deps \cup deps.value) > 100 THEN all_deps \cup deps.value
  ELSE accumulate_deps(Tail(files), language, all_deps \cup deps.value)

\* the accumulation loop of extract_dependencies, all_deps being the set so far
accumulate_deps(files, language, all_deps) ==
  IF files = <<>> THEN all_deps
  ELSE accumulate_file(files, language, all_deps, extract_file_deps(Head(files), language))

\* the filter of extract_dependencies on one name
clean_dependency(dep) == Len(dep) > 1 /\ Len(dep) < 50 /\ ~StartsWith(dep, ".")

\* a list returned whole
whole_list(sorted_deps) == sorted_deps

\* sorted(filtered_deps)[:30]
top_30(sorted_deps) == SubSeq(sorted_deps, 1, Min(Len(sorted_deps), 30))

\* DependencyExtractor.extract_dependencies
extract_dependencies(files, primary_language) ==
  IF primary_language \notin EXTRACTOR_LANGUAGES THEN <<>>
  ELSE top_30(SortedStrings({dep \in accumulate_deps(files, primary_language, {}) :
                               clean_dependency(dep)}))
\* ---------------------------------------------------------- FilePrioritizer

WORD_CHARS == "abcdefghijklmnopqrstuvwxyzABCDEFGHIJKLMNOPQRSTUVWXYZ0123456789_"

IsWordCh(c) == Contains(WORD_CHARS, c)

\* re.search(r"\b(w1|w2|...)\b", s), and with plural the pattern r"\b(w1|...)s?\b"
HasWord(s, words, plural) ==
  \E w \in words : \E i \in 1..(Len(s) - Len(w) + 1) :
    LET end == i + Len(w) - 1
        boundary(k) == k = Len(s) \/ ~IsWordCh(Ch(s, k + 1))
    IN /\ SubSeq(s, i, end) = w
       /\ (i = 1 \/ ~IsWordCh(Ch(s, i - 1)))
       /\ \/ boundary(end)
          \/ (plural /\ end < Len(s) /\ Ch(s, end + 1) = "s" /\ boundary(end + 1))

\* FilePrioritizer.weights
WEIGHT_LANGUAGE_MATCH == 200
WEIGHT_COMPLEXITY == 50
WEIGHT_DEPTH_PENALTY == 25

\* FilePrioritizer._get_base_priority_by_category
get_base_priority_by_category(category) ==
  Get(<<<<"python", 800>>, <<"javascript", 750>>, <<"typescript", 750>>, <<"java", 700>>,
        <<"cpp", 650>>, <<"csharp", 650>>, <<"go", 650>>, <<"rust", 650>>, <<"php", 600>>,
        <<"ruby", 600>>, <<"swift", 580>>, <<"kotlin", 580>>, <<"scala", 570>>,
        <<"dockerfile", 900>>, <<"makefile", 800>>, <<"config", 550>>, <<"yaml", 500>>,
        <<"json", 500>>, <<"xml", 400>>, <<"markdown", 400>>, <<"text", 300>>,
        <<"binary", 0>>, <<"skip", 0>>>>, category, 200)

\* FilePrioritizer._calculate_importance_bonus: exact filename table
IMPORTANCE_PATTERNS ==
  <<<<"readme.md", 300>>, <<"readme.txt", 250>>, <<"changelog.md", 150>>, <<"license", 100>>,
    <<"contributing.md", 100>>, <<"dockerfile", 400>>, <<"docker-compose.yml", 350>>,
    <<"makefile", 300>>, <<"package.json", 250>>, <<"requirements.txt", 200>>,
    <<"setup.py", 200>>, <<"pyproject.toml", 200>>, <<"cargo.toml", 200>>, <<"go.mod", 200>>,
    <<"pom.xml", 180>>, <<"build.gradle", 180>>, <<".gitignore", 100>>, <<"main.py", 300>>,
    <<"main.js", 300>>, <<"index.js", 300>>, <<"index.html", 250>>, <<"app.py", 300>>,
    <<"server.py", 250>>, <<"manage.py", 200>>, <<"config.py", 180>>, <<"settings.py", 200>>,
    <<"wsgi.py", 150>>, <<"asgi.py", 150>>>>

\* FilePrioritizer._calculate_importance_bonus
calculate_importance_bonus(filename, full_path) ==
  IF HasKey(IMPORTANCE_PATTERNS, filename) THEN Lookup(IMPORTANCE_PATTERNS, filename)
  ELSE (IF HasWord(filename, {"main", "index", "app", "server"}, FALSE) THEN 200 ELSE 0)
       + (IF HasWord(filename, {"test", "spec"}, TRUE) /\ ~Contains(full_path, "node_modules")
          THEN 50 ELSE 0)
       + (IF HasWord(filename, {"config", "settings", "env"}, FALSE) THEN 100 ELSE 0)
       + (IF HasWord(filename, {"api", "endpoint", "route", "view"}, TRUE) THEN 150 ELSE 0)
       + (IF HasWord(filename, {"model", "schema", "entity"}, TRUE) THEN 120 ELSE 0)

RECURSIVE SumSeq(_)
SumSeq(seq) == IF seq = <<>> THEN 0 ELSE Head(seq) + SumSeq(Tail(seq))

\* FilePrioritizer._calculate_framework_bonus (content is a str)
calculate_framework_bonus(content) ==
  IF content = "" THEN 0 ELSE Min(SumSeq(ContentScan(content).fw), 300)

\* FilePrioritizer._calculate_size_factor (size is an int)
calculate_size_factor(size) ==
  IF size = 0 THEN -50
  ELSE IF size > MAX_FILE_SIZE THEN -200
  ELSE IF size < 100 THEN -30
  ELSE IF 100 <= size /\ size <= 5000 THEN 30
  ELSE IF 5000 < size /\ size <= 20000 THEN 10
  ELSE IF 20000 < size /\ size <= 50000 THEN -10
  ELSE -30

\* FilePrioritizer._calculate_comment_ratio > 0.1
comment_ratio_above_tenth(content, file_ext) ==
  LET total_lines == NumLines(content)
      comment_lines == IF file_ext = ".py" THEN ContentScan(content).hash_comments
                       ELSE ContentScan(content).slash_comments
  IN content # "" /\ total_lines # 0 /\ 10 * comment_lines > total_lines

\* FilePrioritizer._calculate_content_quality_bonus (content is a str)
calculate_content_quality_bonus(content, file_ext) ==
  IF content = "" THEN 0
  ELSE (IF Len(Strip(content)) > 50 THEN 20 ELSE 0)
       + (IF file_ext \in {".py", ".js", ".ts", ".java", ".cpp"}
             /\ comment_ratio_above_tenth(content, file_ext) THEN 30 ELSE 0)
       + (IF ContentScan(content).decl THEN 40 ELSE 0)
       + (IF ContentScan(content).imp THEN 20 ELSE 0)

\* Factor 1 of _calculate_priority_score
language_bonus(detected_language, target_language) ==
  IF detected_language = target_language THEN WEIGHT_LANGUAGE_MATCH
  ELSE IF detected_language \in {"python", "javascript", "typescript", "java"}
  THEN WEIGHT_LANGUAGE_MATCH \div 2
  ELSE 0

\* Factor 4 of _calculate_priority_score: <<>> for a file that gets no complexity
\* score, else the score in a one-element list
complexity_of(content, detected_language) ==
  IF Truthy(content)
     /\ detected_language \in {"python", "javascript", "typescript", "java", "cpp"}
  THEN <<calculate_complexity(content.v, detected_language)>>
  ELSE <<>>

\* min(int(complexity_score * weights["complexity"]), 200)
complexity_bonus(complexity) ==
  IF complexity = <<>> THEN 0
  ELSE Min((complexity[1][1] * WEIGHT_COMPLEXITY) \div complexity[1][2], 200)

\* the sum of the factors as it is
unfloored_priority(total) == total

\* final_priority = max(final_priority, 10)
final_priority(total) == Max(total, 10)

\* The end of _calculate_priority_score: the copy of file_info with its
\* priority, language, complexity and priority_breakdown set
enhanced_file(file_info, detected_language, base_priority, language, importance_bonus, framework_bonus, complexity, size_factor, content_bonus, depth_penalty) ==
  [file_info EXCEPT
     !.complexity = IF complexity = <<>> THEN @ ELSE [t |-> "float", v |-> complexity[1]],
     !.priority = PyInt(final_priority(
                          base_priority + language + importance_bonus + framework_bonus
                          + complexity_bonus(complexity) + size_factor + content_bonus
                          - depth_penalty)),
     !.language = PyStr(detected_language),
     !.priority_breakdown =
       [t |-> "dict",
        v |-> [base |-> base_priority, language |-> language,
               importance |-> importance_bonus, framework |-> framework_bonus,
               complexity |-> complexity_bonus(complexity), size |-> size_factor,
               content |-> content_bonus, depth_penalty |-> -depth_penalty]]]

\* _calculate_priority_score from the language detection on (path and filename
\* are str): the enhanced copy, or the exception a factor raises
score_detected(file_info, target_language, path, size, content, filename, detection) ==
  IF detection.raised THEN detection
  ELSE IF Truthy(content) /\ content.t # "str" THEN Raise("TypeError")
  ELSE IF size.t # "int" THEN Raise("TypeError")
  ELSE Ok(enhanced_file(
            file_info, detection.value,
            get_base_priority_by_category(get_file_category(filename)),
            language_bonus(detection.value, target_language),
            calculate_importance_bonus(filename, path),
            IF Truthy(content) THEN calculate_framework_bonus(content.v) ELSE 0,
            complexity_of(content, detection.value),
            calculate_size_factor(size.v),
            IF Truthy(content)
            THEN calculate_content_quality_bonus(content.v, Lower(PathSuffix(path))) ELSE 0,
            Min((Len(PathParts(path)) - 1) * WEIGHT_DEPTH_PENALTY, 150)))

\* _calculate_priority_score once path, size and content are read
score_fields(file_info, target_language, path, size, content) ==
  IF ~Truthy(path) THEN Ok([file_info EXCEPT !.priority = PyInt(50)])
  ELSE IF path.t # "str" THEN Raise("TypeError")
  ELSE score_detected(file_info, target_language, path.v, size, content,
                      Lower(PathName(path.v)),
                      detect_language(PyStr(Lower(PathName(path.v))), content))

\* FilePrioritizer._calculate_priority_score: the enhanced copy, or the exception
calculate_priority_score(file_info, target_language) ==
  score_fields(file_info, target_language, GetOr(file_info.path, PyStr("")),
               GetOr(file_info.size, PyInt(0)), GetOr(file_info.content, PyStr("")))

\* x.get("priority", 100) of the sort key and of the tier grouping
priority_of(file_info) == GetOr(file_info.priority, PyInt(100)).v

\* a record left as it is
without_priority(file_info) == file_info

\* a record whose priority is raised by 100
raised_priority(file_info) ==
  [file_info EXCEPT !.priority = PyInt(GetOr(file_info.priority, PyInt(100)).v + 100)]

\* The except branch of the loop of prioritize_files: file_info["priority"] = 100
default_priority(file_info) == [file_info EXCEPT !.priority = PyInt(100)]

\* The try/except of the loop of prioritize_files for one file, score being the
\* outcome of _calculate_priority_score: the record appended to prioritized_files,
\* and the input record as the iteration leaves it
scored_or_default(file_info, score) ==
  IF score.raised
  THEN [out |-> default_priority(file_info), input |-> default_priority(file_info),
        failed |-> TRUE]
  ELSE [out |-> score.value, input |-> file_info, failed |-> FALSE]

\* One iteration of the loop of prioritize_files
prioritize_one(file_info, target_language) ==
  scored_or_default(file_info, calculate_priority_score(file_info, target_language))

\* the second components of a sequence of pairs
Items(pairs) == [i \in 1..Len(pairs) |-> pairs[i][2]]

\* a list left in the order of its input
in_input_order(prioritized_files) == prioritized_files

\* prioritized_files.sort(key=lambda x: x.get("priority", 100), reverse=True)
sort_by_priority(prioritized_files) ==
  Items(SortedDesc([i \in 1..Len(prioritized_files) |->
                      <<priority_of(prioritized_files[i]), prioritized_files[i]>>]))

\* prioritize_files after its loop, each being the outcome of every iteration
prioritize_each(each) ==
  [raised |-> FALSE,
   value |-> sort_by_priority([i \in 1..Len(each) |-> each[i].out]),
   files |-> [i \in 1..Len(each) |-> each[i].input],
   failed |-> {i \in 1..Len(each) : each[i].failed}]

\* prioritize_files once the target language is known or its detection raised
prioritize_for(files, target) ==
  IF target.raised
  THEN [raised |-> TRUE, value |-> target.value, files |-> files, failed |-> {}]
  ELSE prioritize_each([i \in 1..Len(files) |-> prioritize_one(files[i], target.value)])

\* FilePrioritizer.prioritize_files; target_language is a Python value (None when
\* omitted).  The value is the returned list, files is the input list as the
\* call leaves it, failed holds the positions whose scoring raised.
prioritize_files(files, target_language) ==
  IF files = <<>> THEN [raised |-> FALSE, value |-> <<>>, files |-> files, failed |-> {}]
  ELSE IF Truthy(target_language) THEN prioritize_for(files, Ok(target_language.v))
  ELSE prioritize_for(files, detect_primary_language(files))

\* ------------------------------------------------------------ FileProcessor

\* a context dict: max_total_size and max_files are ints or missing
Context(max_total_size, max_files) ==
  [max_total_size |-> max_total_size, max_files |-> max_files]

\* the four tiers with the lowest first
tiers_low_first(files) ==
  <<SelectSeq(files, LAMBDA f : GetOr(f.priority, PyInt(100)).v < 400),
    SelectSeq(files, LAMBDA f : GetOr(f.priority, PyInt(100)).v \in 400..599),
    SelectSeq(files, LAMBDA f : GetOr(f.priority, PyInt(100)).v \in 600..799),
    SelectSeq(files, LAMBDA f : GetOr(f.priority, PyInt(100)).v >= 800)>>

\* FileProcessor._group_by_priority_tiers: the four tiers in dict order
group_by_priority_tiers(files) ==
  <<SelectSeq(files, LAMBDA f : priority_of(f) >= 800),
    SelectSeq(files, LAMBDA f : priority_of(f) < 800 /\ priority_of(f) >= 600),
    SelectSeq(files, LAMBDA f : priority_of(f) < 600 /\ priority_of(f) >= 400),
    SelectSeq(files, LAMBDA f : priority_of(f) < 400)>>

size_of(file_info) == GetOr(file_info.size, PyInt(0)).v

RECURSIVE SumSizes(_)
SumSizes(files) == IF files = <<>> THEN 0 ELSE size_of(Head(files)) + SumSizes(Tail(files))

\* a size check that lets every file through
ignores_size_limit(total_size, file_size, size_limit) == FALSE

\* if total_size + file_size > size_limit
exceeds_size_limit(total_size, file_size, size_limit) == total_size + file_size > size_limit

RECURSIVE select_from_tier(_, _, _, _)

\* One iteration of the inner loop of _perform_smart_selection on a file whose
\* size is a number: the file is passed over, the tier is left, or the file is
\* appended.  size_limit * 0.1 is compared exactly.
select_file(tier_files, selected_files, size_limit, count_limit, file_size) ==
  IF exceeds_size_limit(SumSizes(selected_files), file_size, size_limit)
  THEN IF 10 * file_size < size_limit
       THEN select_from_tier(Tail(tier_files), selected_files, size_limit, count_limit)
       ELSE Ok(selected_files)
  ELSE IF Len(selected_files) >= count_limit THEN Ok(selected_files)
  ELSE select_from_tier(Tail(tier_files), Append(selected_files, Head(tier_files)),
                        size_limit, count_limit)

\* the inner loop of _perform_smart_selection over one tier: selected_files after
\* the tier, or the TypeError of adding a size that is not a number
select_from_tier(tier_files, selected_files, size_limit, count_limit) ==
  IF tier_files = <<>> THEN Ok(selected_files)
  ELSE IF GetOr(Head(tier_files).size, PyInt(0)).t # "int" THEN Raise("TypeError")
  ELSE select_file(tier_files, selected_files, size_limit, count_limit,
                   size_of(Head(tier_files)))

\* the check after a tier: if len(selected_files) >= count_limit or
\* total_size >= size_limit * 0.9, compared exactly
limits_reached(selected_files, size_limit, count_limit) ==
  \/ Len(selected_files) >= count_limit
  \/ SumSizes(selected_files) >= size_limit - (size_limit \div 10)

RECURSIVE select_from_tiers(_, _, _, _)

\* the outer loop after one tier, after being selected_files as the tier left it
next_tier(tiers, after, size_limit, count_limit) ==
  IF after.raised THEN after
  ELSE IF limits_reached(after.value, size_limit, count_limit) THEN after
  ELSE select_from_tiers(Tail(tiers), after.value, size_limit, count_limit)

\* the outer loop of _perform_smart_selection over the remaining tiers
select_from_tiers(tiers, selected_files, size_limit, count_limit) ==
  IF tiers = <<>> THEN Ok(selected_files)
  ELSE next_tier(tiers, select_from_tier(Head(tiers), selected_files, size_limit, count_limit),
                 size_limit, count_limit)

\* size_limit = context.get("max_total_size", Config.MAX_TOTAL_SIZE_BYTES)
size_limit_of(context) == GetOr(context.max_total_size, PyInt(MAX_TOTAL_SIZE_BYTES)).v

\* count_limit = context.get("max_files", Config.MAX_FILES_COUNT)
count_limit_of(context) == GetOr(context.max_files, PyInt(MAX_FILES_COUNT)).v

\* FileProcessor._perform_smart_selection
perform_smart_selection(prioritized_files, context) ==
  IF prioritized_files = <<>> THEN Ok(<<>>)
  ELSE select_from_tiers(group_by_priority_tiers(prioritized_files), <<>>,
                         size_limit_of(context), count_limit_of(context))

RECURSIVE SumLines(_)
SumLines(files) ==
  IF files = <<>> THEN 0
  ELSE NumLines(GetOr(Head(files).content, PyStr("")).v) + SumLines(Tail(files))

\* self.stats of a new FileProcessor (processing_time, a wall-clock reading,
\* is not carried)
NewStats ==
  [total_files_processed |-> 0, files_filtered |-> 0, files_selected |-> 0,
   languages_detected |-> 0, frameworks_detected |-> 0]

\* FileProcessor._generate_analysis_info: the returned dict (the complexity
\* average and the per-language and per-extension histograms are not carried),
\* or the AttributeError of content.splitlines() on a content that is not a str.
\* st is self.stats as the method reads it.
generate_analysis_info(selected_files, languages, frameworks, dependencies, primary_language, st) ==
  IF \E i \in 1..Len(selected_files) :
       GetOr(selected_files[i].content, PyStr("")).t # "str"
  THEN Raise("AttributeError")
  ELSE Ok([primary_language |-> primary_language,
           languages |-> languages,
           detected_frameworks |-> frameworks,
           dependencies |-> dependencies,
           total_files_processed |-> st.total_files_processed,
           files_filtered |-> st.files_filtered,
           selected_files_count |-> Len(selected_files),
           total_size |-> SumSizes(selected_files),
           total_lines |-> SumLines(selected_files),
           processing_stats |-> st])

\* the marker process_files returns when no file survives the filter
NoValidFiles == [error |-> "No valid files to process"]

ALL_STAGES == {"filter", "languages", "frameworks", "dependencies", "prioritize", "select"}

\* How a process_files call ends: whether it raised, the returned pair
\* (selected, info), the stats it leaves, the stages that ran and the list the
\* filter returned
Outcome(raised, selected_files, info, st, stages, valid_files) ==
  [raised |-> raised, selected |-> selected_files, info |-> info, stats |-> st,
   stages |-> stages, valid_files |-> valid_files]

\* process_files from _generate_analysis_info on
process_info(st, valid_files, selected_files, info) ==
  IF info.raised
  THEN Outcome(TRUE, <<>>, [error |-> info.value], st, ALL_STAGES, valid_files)
  ELSE Outcome(FALSE, selected_files, info.value, st, ALL_STAGES, valid_files)

\* process_files from stats["files_selected"] on
process_selected(st, valid_files, languages, primary_language, frameworks, dependencies, selected) ==
  IF selected.raised
  THEN Outcome(TRUE, <<>>, [error |-> selected.value], st, ALL_STAGES, valid_files)
  ELSE process_info([st EXCEPT !.files_selected = Len(selected.value)], valid_files,
                    selected.value,
                    generate_analysis_info(
                      selected.value, languages, frameworks, dependencies, primary_language,
                      [st EXCEPT !.files_selected = Len(selected.value)]))

\* process_files from stats["frameworks_detected"] on
process_frameworks(context, st, valid_files, languages, primary_language, frameworks) ==
  process_selected([st EXCEPT !.frameworks_detected = Len(frameworks)], valid_files,
                   languages, primary_language, frameworks,
                   extract_dependencies(valid_files, primary_language),
                   perform_smart_selection(
                     prioritize_files(valid_files, PyStr(primary_language)).value, context))

\* process_files from the language analysis on
process_languages(context, st, valid_files, languages) ==
  IF languages.raised
  THEN Outcome(TRUE, <<>>, [error |-> languages.value], st, {"filter", "languages"},
               valid_files)
  ELSE process_frameworks(context, [st EXCEPT !.languages_detected = Len(languages.value)],
                          valid_files, languages.value, first_language(languages).value,
                          detect_frameworks(valid_files, first_language(languages).value))

\* a check that takes every list for non-empty
always_valid(valid_files) == FALSE

\* if not valid_files
no_valid_files(valid_files) == valid_files = <<>>

\* process_files from stats["files_filtered"] on, filtered being the outcome of
\* _apply_basic_filtering
process_filtered(files, context, st, filtered) ==
  IF filtered.raised
  THEN Outcome(TRUE, <<>>, [error |-> filtered.value], st, {"filter"}, <<>>)
  ELSE IF no_valid_files(filtered.value)
  THEN Outcome(FALSE, <<>>, NoValidFiles,
               [st EXCEPT !.files_filtered = Len(files) - Len(filtered.value)],
               {"filter"}, filtered.value)
  ELSE process_languages(
         context,
         [st EXCEPT !.files_filtered = Len(files) - Len(filtered.value)],
         filtered.value, detect_languages(filtered.value))

\* FileProcessor.process_files as one call on a processor whose stats are st
process_files(files, context, st) ==
  process_filtered(files, context, [st EXCEPT !.total_files_processed = Len(files)],
                   apply_basic_filtering(files))

\* ------------------------------------------------------------ state machine

\* longest file list handed to an entry point
MaxFiles == 2

\* longest file list handed to one of two concurrent process_files calls
MaxThreadFiles == 2

Pools ==
  {PoolScenario, PoolFilter, PoolMalformed, PoolUntyped, PoolRanked, PoolTiers, PoolDeps,
   PoolEmpty, PoolLanguages, PoolLimits}

RECURSIVE ListsOver(_, _)
\* the lists of at most n distinct records of a pool, in every order
ListsOver(pool, n) ==
  IF n = 0 THEN {<<>>}
  ELSE LET shorter == ListsOver(pool, n - 1)
       IN shorter \cup
          UNION {{Append(s, f) : f \in {g \in pool : \A i \in 1..Len(s) : s[i] # g}} :
                 s \in shorter}

InputLists == UNION {ListsOver(pool, MaxFiles) : pool \in Pools}

\* the context dicts callers pass: {} and dicts with limits
Contexts ==
  {Context(Absent, Absent), Context(PyInt(100), Absent), Context(Absent, PyInt(2)),
   Context(PyInt(0), PyInt(0))}

\* the target_language arguments of prioritize_files (None when omitted)
Targets == {PyStr("python"), PyNone}

\* the primary_language arguments of extract_dependencies
Languages == {"python", "javascript", "cobol"}

Threads == {1, 2}

VARIABLES
  files,         \* the caller's list of file records, as the objects now are
  context,       \* the context dict of the last call that takes one
  target,        \* the target_language of the last prioritize_files call
  stats,         \* FileProcessor.stats
  op,            \* the entry point that returned last ("new" before any)
  prioritized,   \* what the last prioritize_files call returned or raised
  selected,      \* what the last _perform_smart_selection call returned or raised
  earlier,       \* the prioritized and selected lists of the run before this one
  result,        \* what the last process_files call returned or raised
  dependencies,  \* language and result of the last extract_dependencies call
  threads,       \* per worker thread: its process_files call in progress
  detected,      \* what the last detect_languages call returned or raised
  held,          \* the first analysis_info a caller got from this processor and kept
  name,          \* the argument of the Config classifier calls
  classified,    \* the last Config classifier call: its results for name,
                 \* name.lower() and name.upper()
  analysis,      \* the analyze_repository_async call in progress or returned
  retry,         \* the call of a function wrapped by retry_with_backoff
  limiter,       \* the AsyncRateLimitManager and the tasks calling it
  walk           \* the get_repository_contents call chain of one task

vars == <<files, context, target, stats, op, prioritized, selected, earlier, result,
          dependencies, threads, detected, held, name, classified, analysis, retry, limiter, walk>>

NoCall == [raised |-> FALSE, value |-> <<>>]

NoRun == [prioritized |-> <<>>, selected |-> <<>>, ran |-> FALSE]

NoResult ==
  [raised |-> FALSE, selected |-> <<>>, info |-> [error |-> ""], stats |-> NewStats,
   stages |-> {}, valid_files |-> <<>>]

\* candidates is len(all_deps) when the accumulation loop is left
NoDependencies == [language |-> "", value |-> <<>>, candidates |-> 0]

\* no analysis_info is held yet
NoneHeld == [kept |-> FALSE, returned |-> NoValidFiles, info |-> NoValidFiles,
             shares_stats |-> FALSE]

NoClassified == [fn |-> "", value |-> "", lower |-> "", upper |-> "", category |-> ""]

\* no analyze_repository_async call was made
NoAnalysis == [pc |-> "idle"]

\* no wrapped function is being called
NoRetry == [pc |-> "idle"]

\* no AsyncRateLimitManager was built
NoManager == [token |-> FALSE]

\* no get_repository_contents call was made
NoWalk == [pc |-> "idle"]

\* the Config classifiers are not part of the run
NoClassifier == name = "" /\ classified = NoClassified

Idle == [pc |-> "idle", files |-> <<>>, valid_files |-> <<>>, primary_language |-> "",
         total_files_processed |-> 0, files_filtered |-> 0]

\* A FileProcessor after construction, a caller holding a list of file records
Init ==
  /\ files \in InputLists
  /\ context = Context(Absent, Absent)
  /\ target = PyNone
  /\ stats = NewStats
  /\ op = "new"
  /\ prioritized = NoCall
  /\ selected = NoCall
  /\ earlier = NoRun
  /\ result = NoResult
  /\ dependencies = NoDependencies
  /\ threads = [t \in Threads |-> Idle]
  /\ detected = NoCall
  /\ held = NoneHeld
  /\ NoClassifier
  /\ walk = NoWalk
  /\ limiter = NoManager
  /\ retry = NoRetry
  /\ analysis = NoAnalysis

\* The analysis_info objects of the caller after a process_files call that left
\* self.stats as st: the first analysis_info returned is kept, and the dict
\* under its "processing_stats" key is self.stats for as long as self.stats is
\* bound to that dict
hold(before, outcome) ==
  IF before.kept
  THEN IF before.shares_stats
       THEN [before EXCEPT !.info.processing_stats = outcome.stats]
       ELSE before
  ELSE IF ~outcome.raised /\ outcome.stages = ALL_STAGES
  THEN [kept |-> TRUE, returned |-> outcome.info, info |-> outcome.info,
        shares_stats |-> TRUE]
  ELSE before

\* processor.process_files(files, context)
ProcessFiles ==
  /\ op \in {"new", "reset_stats"}
  /\ context' \in Contexts
  /\ result' = process_files(files, context', stats)
  /\ stats' = result'.stats
  /\ held' = hold(held, result')
  /\ op' = "process_files"
  /\ UNCHANGED <<files, target, prioritized, selected, earlier, dependencies, threads,
                 detected, name, classified, analysis, retry, limiter, walk>>

\* processor.process_files([], {}) after an earlier call on the same processor
ProcessEmptyList ==
  /\ op = "process_files"
  /\ context' = Context(Absent, Absent)
  /\ result' = process_files(<<>>, context', stats)
  /\ stats' = result'.stats
  /\ held' = hold(held, result')
  /\ op' = "process_empty_list"
  /\ UNCHANGED <<files, target, prioritized, selected, earlier, dependencies, threads,
                 detected, name, classified, analysis, retry, limiter, walk>>

\* processor.reset_stats(), at most once after an analysis_info was kept
ResetStats ==
  /\ op = "process_files"
  /\ held.kept => held.shares_stats
  /\ stats' = NewStats
  /\ held' = [held EXCEPT !.shares_stats = FALSE]
  /\ op' = "reset_stats"
  /\ UNCHANGED <<files, context, target, prioritized, selected, earlier, result,
                 dependencies, threads, detected, name, classified, analysis, retry, limiter, walk>>

\* prioritizer.prioritize_files(files, target_language): the first run on a new
\* list, or the second run of the same call once a selection was made
PrioritizeFiles ==
  /\ \/ op = "new" /\ target' \in Targets /\ earlier' = earlier
     \/ /\ op = "select"
        /\ ~selected.raised
        /\ ~earlier.ran
        /\ target' = target
        /\ earlier' = [prioritized |-> prioritized.value, selected |-> selected.value,
                       ran |-> TRUE]
  /\ \E r \in {prioritize_files(files, target')} :
       /\ prioritized' = [raised |-> r.raised, value |-> r.value, failed |-> r.failed]
       /\ files' = r.files
  /\ op' = "prioritize_files"
  /\ UNCHANGED <<context, stats, selected, result, dependencies, threads, detected, held,
                 name, classified, analysis, retry, limiter, walk>>

\* processor._perform_smart_selection(prioritized_files, context) on the list
\* prioritize_files returned; the second run passes the same context
SmartSelection ==
  /\ op = "prioritize_files"
  /\ ~prioritized.raised
  /\ IF earlier.ran THEN context' = context ELSE context' \in Contexts
  /\ selected' = perform_smart_selection(prioritized.value, context')
  /\ op' = "select"
  /\ UNCHANGED <<files, target, stats, prioritized, earlier, result, dependencies, threads,
                 detected, held, name, classified, analysis, retry, limiter, walk>>

\* extractor.extract_dependencies(files, primary_language)
ExtractDependencies ==
  /\ op = "new"
  /\ \E language \in Languages :
       dependencies' = [language |-> language,
                        value |-> extract_dependencies(files, language),
                        candidates |-> IF language \in EXTRACTOR_LANGUAGES
                                       THEN Cardinality(accumulate_deps(files, language, {}))
                                       ELSE 0]
  /\ op' = "extract_dependencies"
  /\ UNCHANGED <<files, context, target, stats, prioritized, selected, earlier, result,
                 threads, detected, held, name, classified, analysis, retry, limiter, walk>>

\* detector.detect_languages(files)
DetectLanguages ==
  /\ op = "new"
  /\ detected' = detect_languages(files)
  /\ op' = "detect_languages"
  /\ UNCHANGED <<files, context, target, stats, prioritized, selected, earlier, result,
                 dependencies, threads, held, name, classified, analysis, retry, limiter, walk>>

Next ==
  \/ ProcessFiles
  \/ ProcessEmptyList
  \/ ResetStats
  \/ PrioritizeFiles
  \/ SmartSelection
  \/ ExtractDependencies
  \/ DetectLanguages

Spec == Init /\ [][Next]_vars

\* ------------------------------------------- two concurrent process_files calls

\* the file lists the two concurrent analyses hand to process_files
ThreadInputs == ListsOver(PoolScenario, MaxThreadFiles)

\* thread t is at position pc of its process_files call
At(t, pc) == threads[t].pc = pc

\* a FileProcessor shared by two worker threads, neither yet in process_files
ConcurrentInit ==
  /\ files = <<>>
  /\ context = Context(Absent, Absent)
  /\ target = PyNone
  /\ stats = NewStats
  /\ op = "new"
  /\ prioritized = NoCall
  /\ selected = NoCall
  /\ earlier = NoRun
  /\ result = NoResult
  /\ dependencies = NoDependencies
  /\ threads = [t \in Threads |-> Idle]
  /\ detected = NoCall
  /\ held = NoneHeld
  /\ NoClassifier
  /\ walk = NoWalk
  /\ limiter = NoManager
  /\ retry = NoRetry
  /\ analysis = NoAnalysis

\* what the concurrent calls never touch
ThreadFrame ==
  UNCHANGED <<files, context, target, op, prioritized, selected, earlier, result,
              dependencies, detected, held, name, classified, analysis, retry, limiter, walk>>

\* process_files entered: self.stats["total_files_processed"] = len(files)
ThreadCall(t) ==
  /\ At(t, "idle")
  /\ \E input \in ThreadInputs :
       /\ threads' = [threads EXCEPT ![t].pc = "filter", ![t].files = input]
       /\ stats' = [stats EXCEPT !.total_files_processed = Len(input)]
  /\ ThreadFrame

\* _apply_basic_filtering, self.stats["files_filtered"], and the early return
ThreadFilter(t) ==
  /\ At(t, "filter")
  /\ \E valid \in {apply_basic_filtering(threads[t].files)} :
       IF valid.raised
       THEN /\ threads' = [threads EXCEPT ![t].pc = "raised"]
            /\ stats' = stats
       ELSE /\ threads' = [threads EXCEPT
                             ![t].pc = IF no_valid_files(valid.value) THEN "returned"
                                       ELSE "languages",
                             ![t].valid_files = valid.value]
            /\ stats' = [stats EXCEPT
                           !.files_filtered = Len(threads[t].files) - Len(valid.value)]
  /\ ThreadFrame

\* detect_languages and self.stats["languages_detected"]
ThreadLanguages(t) ==
  /\ At(t, "languages")
  /\ \E languages \in {detect_languages(threads[t].valid_files)} :
       IF languages.raised
       THEN /\ threads' = [threads EXCEPT ![t].pc = "raised"]
            /\ stats' = stats
       ELSE /\ threads' = [threads EXCEPT
                             ![t].pc = "frameworks",
                             ![t].primary_language = first_language(languages).value]
            /\ stats' = [stats EXCEPT !.languages_detected = Len(languages.value)]
  /\ ThreadFrame

\* detect_frameworks and self.stats["frameworks_detected"]
ThreadFrameworks(t) ==
  /\ At(t, "frameworks")
  /\ stats' = [stats EXCEPT
                 !.frameworks_detected =
                   Len(detect_frameworks(threads[t].valid_files, threads[t].primary_language))]
  /\ threads' = [threads EXCEPT ![t].pc = "select"]
  /\ ThreadFrame

\* prioritize_files, _perform_smart_selection and self.stats["files_selected"]
ThreadSelect(t) ==
  /\ At(t, "select")
  /\ \E chosen \in {perform_smart_selection(
                      prioritize_files(threads[t].valid_files,
                                       PyStr(threads[t].primary_language)).value,
                      Context(Absent, Absent))} :
       IF chosen.raised
       THEN /\ threads' = [threads EXCEPT ![t].pc = "raised"]
            /\ stats' = stats
       ELSE /\ threads' = [threads EXCEPT ![t].pc = "info"]
            /\ stats' = [stats EXCEPT !.files_selected = Len(chosen.value)]
  /\ ThreadFrame

\* _generate_analysis_info reads self.stats["total_files_processed"]
ThreadReadTotal(t) ==
  /\ At(t, "info")
  /\ threads' = [threads EXCEPT ![t].pc = "info_filtered",
                                ![t].total_files_processed = stats.total_files_processed]
  /\ stats' = stats
  /\ ThreadFrame

\* _generate_analysis_info reads self.stats["files_filtered"]; the call returns
ThreadReadFiltered(t) ==
  /\ At(t, "info_filtered")
  /\ threads' = [threads EXCEPT ![t].pc = "returned",
                                ![t].files_filtered = stats.files_filtered]
  /\ stats' = stats
  /\ ThreadFrame

ConcurrentNext ==
  \E t \in Threads :
    \/ ThreadCall(t)
    \/ ThreadFilter(t)
    \/ ThreadLanguages(t)
    \/ ThreadFrameworks(t)
    \/ ThreadSelect(t)
    \/ ThreadReadTotal(t)
    \/ ThreadReadFiltered(t)

\* analyze_repository_async twice on one analyzer: two worker threads inside
\* process_files of the one shared FileProcessor
ConcurrentSpec == ConcurrentInit /\ [][ConcurrentNext]_vars

\* ------------------------------------------------------ the Config classifiers

\* the names handed to the classifiers: every SKIP_FILES entry, names in mixed
\* case, with directories, with surrounding blanks, and names spelled with the
\* dotless i
ClassifierNames ==
  SKIP_FILES \cup
  {"", "README.md", "Dockerfile", "Makefile", "FILE.PY", "script.js", "image.JPG",
   "archive.tar.gz", "x.R", "a.tar.Z", " .gitignore ", "a/b/c/d/e/test_config.py", "build",
   "BUILD", ".git", "unknown.xyz", "sub/.gitkeep", "__init__.py", ".keep", "main.py",
   "package.json", "Test.Spec.cfg", "src/Main.PY", "a/b/c/d/e/f/g/README.md",
   "tests/spec_helper.rb", "CVS", "Vendor", "setup.py",
   "a." \o DOTLESS_I \o "n" \o DOTLESS_I, ".g" \o DOTLESS_I \o "tignore",
   "ma" \o DOTLESS_I \o "n.py", "test.png", "logo.png"}

\* a caller about to classify a name
ClassifierInit ==
  /\ files = <<>>
  /\ context = Context(Absent, Absent)
  /\ target = PyNone
  /\ stats = NewStats
  /\ op = "new"
  /\ prioritized = NoCall
  /\ selected = NoCall
  /\ earlier = NoRun
  /\ result = NoResult
  /\ dependencies = NoDependencies
  /\ threads = [t \in Threads |-> Idle]
  /\ detected = NoCall
  /\ held = NoneHeld
  /\ name \in ClassifierNames
  /\ classified = NoClassified
  /\ walk = NoWalk
  /\ limiter = NoManager
  /\ retry = NoRetry
  /\ analysis = NoAnalysis

\* what the classifiers never touch
ClassifierFrame ==
  UNCHANGED <<files, context, target, stats, op, prioritized, selected, earlier, result,
              dependencies, threads, detected, held, name, analysis, retry, limiter, walk>>

\* Config.get_file_category on name, name.lower() and name.upper()
GetFileCategory ==
  /\ classified.fn = ""
  /\ classified' = [fn |-> "get_file_category", value |-> get_file_category(name),
                    lower |-> get_file_category(Lower(name)),
                    upper |-> get_file_category(Upper(name)),
                    category |-> get_file_category(name)]
  /\ ClassifierFrame

\* Config.is_binary_file on name, name.lower() and name.upper()
IsBinaryFile ==
  /\ classified.fn = ""
  /\ classified' = [fn |-> "is_binary_file", value |-> is_binary_file(name),
                    lower |-> is_binary_file(Lower(name)),
                    upper |-> is_binary_file(Upper(name)),
                    category |-> get_file_category(name)]
  /\ ClassifierFrame

\* Config.should_skip_file on name, name.lower() and name.upper()
ShouldSkipFile ==
  /\ classified.fn = ""
  /\ classified' = [fn |-> "should_skip_file", value |-> should_skip_file(name),
                    lower |-> should_skip_file(Lower(name)),
                    upper |-> should_skip_file(Upper(name)),
                    category |-> get_file_category(name)]
  /\ ClassifierFrame

\* Config.get_file_priority on name, name.lower() and name.upper()
GetFilePriority ==
  /\ classified.fn = ""
  /\ classified' = [fn |-> "get_file_priority", value |-> get_file_priority(name),
                    lower |-> get_file_priority(Lower(name)),
                    upper |-> get_file_priority(Upper(name)),
                    category |-> get_file_category(name)]
  /\ ClassifierFrame

\* Config.is_excluded_directory on name, name.lower() and name.upper()
IsExcludedDirectory ==
  /\ classified.fn = ""
  /\ classified' = [fn |-> "is_excluded_directory", value |-> is_excluded_directory(name),
                    lower |-> is_excluded_directory(Lower(name)),
                    upper |-> is_excluded_directory(Upper(name)),
                    category |-> get_file_category(name)]
  /\ ClassifierFrame

ClassifierNext ==
  \/ GetFileCategory
  \/ IsBinaryFile
  \/ ShouldSkipFile
  \/ GetFilePriority
  \/ IsExcludedDirectory

ClassifierSpec == ClassifierInit /\ [][ClassifierNext]_vars


\* ---------------------------------------------------------------------------
\* core.py: GitHubRepositoryAnalyzer.analyze_repository_async
\* ---------------------------------------------------------------------------

\* an exception: the name of its type and its str()
Exception(type, message) == [type |-> type, message |-> message]

NoError == Exception("", "")

\* the repo_url arguments: a well-formed URL and the empty string
URLS == {"https://github.com/test/repo", ""}

\* URLParser.parse_github_url on the URLs of URLS
parse_github_url(url) ==
  IF url = "" THEN Raise(Exception("ValidationError", "Empty URL provided"))
  ELSE Ok([owner |-> "test", repo |-> "repo"])

\* the method arguments; any other string takes the ZIP-first branch
Methods == {"auto", "zip", "api"}

\* what the GitHub client hands over: file records as analyze_with_zip and
\* analyze_with_api build them
PoolDownload ==
  {File(PyStr("main.py"), PyInt(40), PyStr(T_MAIN)),
   File(PyStr("desktop.ini"), PyInt(20), PyStr(T_INI)),
   File(PyStr("manage.py"), PyNone, PyStr(T_HELLO))}

Downloads == {<<>>} \cup {<<f>> : f \in PoolDownload}

\* the exceptions analyze_with_zip lets through
ZipErrors ==
  {Exception("PrivateRepositoryError", "Repository is private"),
   Exception("NetworkError", "ZIP download failed - no data received"),
   Exception("ValueError", "bad archive")}

\* the exceptions analyze_with_api lets through
ApiErrors ==
  {Exception("NetworkError", "API failed"),
   Exception("RateLimitExceededError", "rate limit exceeded")}

\* the texts of the exceptions process_files lets through
ProcessingMessages == {"unsupported operand", ""}

\* raise EmptyRepositoryError(message): the constructor wants a repo_url too, so
\* the raise statement raises this TypeError
EmptyRepositoryError ==
  Exception("TypeError",
            "EmptyRepositoryError.__init__() missing 1 required positional argument: 'repo_url'")

\* no dict was returned yet
NoReply ==
  [success |-> FALSE, fallback_mode |-> FALSE, error_message |-> "", error_type |-> "",
   analysis_method |-> "", original_error |-> NoError, fallback_triggered |-> FALSE,
   dry_run |-> FALSE]

\* the dict of the dry-run return
DryRunReply == [NoReply EXCEPT !.success = TRUE, !.dry_run = TRUE]

\* the dict returned after the output is saved
SuccessReply(method) == [NoReply EXCEPT !.success = TRUE, !.analysis_method = method]

\* the dict returned by the except branch when fallback is off
FailureReply(original_error, method) ==
  [NoReply EXCEPT
     !.error_message = "Analysis failed: " \o original_error.type \o ": "
                       \o original_error.message,
     !.error_type = original_error.type,
     !.analysis_method = method]

\* the hint create_comprehensive_error_message appends for the type of the
\* original error
error_hint(original_error, token) ==
  IF original_error.type \in {"PrivateRepositoryError", "AuthenticationError"}
  THEN IF ~token
       THEN " Consider providing a GitHub token for private repository access."
       ELSE " Verify that your GitHub token has sufficient permissions (repo scope)."
  ELSE IF original_error.type \in {"NetworkError", "AnalyzerTimeoutError"}
  THEN " This appears to be a network connectivity issue. Please check your internet connection and try again."
  ELSE IF original_error.type = "RateLimitExceededError"
  THEN " GitHub API rate limit exceeded. Please wait before retrying or use a different token."
  ELSE IF original_error.type = "RepositoryTooLargeError"
  THEN " Repository is too large for analysis. Consider analyzing a smaller repository or increasing size limits."
  ELSE ""

\* GitHubRepositoryAnalyzer.create_comprehensive_error_message
create_comprehensive_error_message(original_error, fallback_error, token) ==
  (IF fallback_error # NoError
   THEN "Repository analysis failed completely. Primary analysis failed with "
        \o original_error.type \o ": " \o original_error.message
        \o ". Fallback analysis also failed with " \o fallback_error.type \o ": "
        \o fallback_error.message \o "."
   ELSE "Repository analysis failed: " \o original_error.type \o ": "
        \o original_error.message)
  \o error_hint(original_error, token)

\* the dict returned by the except branch when the fallback itself raised
CompleteFailureReply(original_error, fallback_error, method, token) ==
  [NoReply EXCEPT
     !.fallback_mode = TRUE,
     !.error_message = create_comprehensive_error_message(original_error, fallback_error,
                                                          token),
     !.original_error = original_error,
     !.analysis_method = method]

\* the dict fallback_analysis returns when its body ran through
FallbackReply(original_error_info) ==
  [NoReply EXCEPT !.success = TRUE, !.fallback_mode = TRUE, !.analysis_method = "fallback",
                  !.original_error = original_error_info]

\* the dict fallback_analysis returns when its body raised e
FallbackFailedReply(e, original_error_info) ==
  [NoReply EXCEPT
     !.fallback_mode = TRUE,
     !.analysis_method = "fallback_failed",
     !.original_error = original_error_info,
     !.error_message =
       IF original_error_info # NoError
       THEN "Complete analysis failure. Original error: " \o original_error_info.type
            \o ": " \o original_error_info.message \o ". Fallback error: " \o e.type
            \o ": " \o e.message
       ELSE "Fallback analysis failed: " \o e.type \o ": " \o e.message]

\* GitHubRepositoryAnalyzer.fallback_analysis, raised being the exception its
\* body raised (NoError when it ran through)
fallback_analysis(original_error_info, raised) ==
  IF raised = NoError THEN FallbackReply(original_error_info)
  ELSE FallbackFailedReply(raised, original_error_info)

\* an analyze_repository_async call about to start
NewAnalysis(repo_url, method, fallback, token, dry_run) ==
  [pc |-> "start", repo_url |-> repo_url, method |-> method, fallback |-> fallback,
   token |-> token, dry_run |-> dry_run, downloaded |-> <<>>, zip_error |-> NoError,
   original_error |-> NoError, in_handler |-> FALSE, fallback_calls |-> 0,
   zip_calls |-> 0, api_calls |-> 0, api_error |-> NoError,
   failed |-> FALSE, returned |-> NoReply]

\* return reply
returns(a, reply) == [a EXCEPT !.pc = "returned", !.returned = reply]

\* an except branch that reports the failure without attempting the fallback
gives_up(a, e, url_info) ==
  returns([a EXCEPT !.failed = TRUE, !.original_error = e],
          CompleteFailureReply(e, NoError, a.method, a.token))

\* The except branch of analyze_repository_async once the URL is parsed again,
\* up to the call of fallback_analysis
handler_fallback(a, e, url_info) ==
  IF url_info.raised
  THEN returns([a EXCEPT !.failed = TRUE, !.original_error = e],
               CompleteFailureReply(e, url_info.value, a.method, a.token))
  ELSE [a EXCEPT !.pc = "fallback", !.failed = TRUE, !.original_error = e,
                 !.in_handler = TRUE]

\* an except branch that attempts the fallback whatever the flag says
always_falls_back(a, e) == handler_fallback(a, e, parse_github_url(a.repo_url))

\* The except branch of analyze_repository_async for the exception e, up to its
\* return or its call of fallback_analysis
on_error(a, e) ==
  IF a.fallback THEN handler_fallback(a, e, parse_github_url(a.repo_url))
  ELSE returns([a EXCEPT !.failed = TRUE, !.original_error = e],
               FailureReply(e, a.method))

\* if not files: ... / if not processed_files: ...
no_files(a) ==
  IF a.fallback THEN [a EXCEPT !.pc = "fallback", !.failed = TRUE]
  ELSE on_error(a, EmptyRepositoryError)

\* analyze_repository_async once a download returned files
downloaded_files(a, downloaded) ==
  IF downloaded = <<>> THEN no_files(a)
  ELSE [a EXCEPT !.pc = "process", !.downloaded = downloaded]

\* analyze_repository_async from its first line to the first download
started(a, url_info) ==
  IF url_info.raised THEN on_error(a, url_info.value)
  ELSE IF a.dry_run THEN returns(a, DryRunReply)
  ELSE IF a.method = "api" THEN [a EXCEPT !.pc = "api"]
  ELSE [a EXCEPT !.pc = "zip"]

\* except branches that raise the error of the API attempt
raises_api_error(a, api_error) == on_error([a EXCEPT !.api_error = api_error], api_error)

\* the except branches of the ZIP-first strategy after analyze_with_api raised:
\* each raises the ZIP error again
api_also_failed(a, api_error) == on_error([a EXCEPT !.api_error = api_error], a.zip_error)

\* analyze_repository_async after analyze_with_zip returned or raised: the three
\* except branches of the ZIP-first strategy try the API when there is a token
after_zip(a, outcome) ==
  IF ~outcome.raised THEN downloaded_files(a, outcome.value)
  ELSE IF a.method = "zip" THEN on_error(a, outcome.value)
  ELSE IF a.token THEN [a EXCEPT !.pc = "api", !.zip_error = outcome.value]
  ELSE on_error(a, outcome.value)

\* analyze_repository_async after analyze_with_api returned or raised
after_api(a, outcome) ==
  IF ~outcome.raised THEN downloaded_files(a, outcome.value)
  ELSE IF a.zip_error # NoError THEN api_also_failed(a, outcome.value)
  ELSE on_error([a EXCEPT !.api_error = outcome.value], outcome.value)

\* analyze_repository_async after process_files returned or raised in its thread
after_processing(a, outcome, message) ==
  IF outcome.raised THEN on_error(a, Exception(outcome.info.error, message))
  ELSE IF outcome.selected = <<>> THEN no_files(a)
  ELSE [a EXCEPT !.pc = "save"]

\* analyze_repository_async after fallback_analysis returned reply
after_fallback(a, reply) ==
  IF a.in_handler /\ reply.success
  THEN returns([a EXCEPT !.fallback_calls = @ + 1],
               [reply EXCEPT !.original_error = a.original_error,
                             !.fallback_triggered = TRUE])
  ELSE returns([a EXCEPT !.fallback_calls = @ + 1], reply)

\* what an analysis never touches
AnalysisFrame ==
  UNCHANGED <<context, target, op, prioritized, selected, earlier, dependencies, threads,
              detected, held, name, classified, retry, limiter, walk>>

\* a caller about to call analyze_repository_async
AnalyzeInit ==
  /\ files = <<>>
  /\ context = Context(Absent, Absent)
  /\ target = PyNone
  /\ stats = NewStats
  /\ op = "new"
  /\ prioritized = NoCall
  /\ selected = NoCall
  /\ earlier = NoRun
  /\ result = NoResult
  /\ dependencies = NoDependencies
  /\ threads = [t \in Threads |-> Idle]
  /\ detected = NoCall
  /\ held = NoneHeld
  /\ NoClassifier
  /\ walk = NoWalk
  /\ limiter = NoManager
  /\ retry = NoRetry
  /\ analysis \in {NewAnalysis(u, m, f, t, d) :
                     u \in URLS, m \in Methods, f \in BOOLEAN, t \in BOOLEAN, d \in BOOLEAN}

\* analyze_repository_async up to its first await
AnalyzeRepository ==
  /\ analysis.pc = "start"
  /\ analysis' = started(analysis, parse_github_url(analysis.repo_url))
  /\ UNCHANGED <<files, stats, result>>
  /\ AnalysisFrame

\* await self.analyze_with_zip(owner, repo)
AnalyzeWithZip ==
  /\ analysis.pc = "zip"
  /\ \/ \E d \in Downloads :
          analysis' = after_zip([analysis EXCEPT !.zip_calls = @ + 1], Ok(d))
     \/ \E e \in ZipErrors :
          analysis' = after_zip([analysis EXCEPT !.zip_calls = @ + 1], Raise(e))
  /\ UNCHANGED <<files, stats, result>>
  /\ AnalysisFrame

\* await self.analyze_with_api(owner, repo)
AnalyzeWithApi ==
  /\ analysis.pc = "api"
  /\ \/ \E d \in Downloads :
          analysis' = after_api([analysis EXCEPT !.api_calls = @ + 1], Ok(d))
     \/ \E e \in ApiErrors :
          analysis' = after_api([analysis EXCEPT !.api_calls = @ + 1], Raise(e))
  /\ UNCHANGED <<files, stats, result>>
  /\ AnalysisFrame

\* await asyncio.to_thread(self.file_processor.process_files, files)
ProcessInThread ==
  /\ analysis.pc = "process"
  /\ files' = analysis.downloaded
  /\ result' = process_files(analysis.downloaded, Context(Absent, Absent), stats)
  /\ stats' = result'.stats
  /\ \E message \in ProcessingMessages :
       analysis' = after_processing(analysis, result', message)
  /\ AnalysisFrame

\* metadata generation and await self.save_output_async(...): neither raises
SaveOutput ==
  /\ analysis.pc = "save"
  /\ analysis' = returns(analysis, SuccessReply(analysis.method))
  /\ UNCHANGED <<files, stats, result>>
  /\ AnalysisFrame

\* await self.fallback_analysis(...), whose body runs through or raises
FallbackAnalysis ==
  /\ analysis.pc = "fallback"
  /\ \E raised \in {NoError, Exception("OSError", "disk full")} :
       analysis' = after_fallback(
                     analysis,
                     fallback_analysis(IF analysis.in_handler THEN analysis.original_error
                                       ELSE NoError, raised))
  /\ UNCHANGED <<files, stats, result>>
  /\ AnalysisFrame

AnalyzeNext ==
  \/ AnalyzeRepository
  \/ AnalyzeWithZip
  \/ AnalyzeWithApi
  \/ ProcessInThread
  \/ SaveOutput
  \/ FallbackAnalysis

AnalyzeSpec == AnalyzeInit /\ [][AnalyzeNext]_vars

\* ---------------------------------------------------------------------------
\* utils.py: RetryUtils.retry_with_backoff
\* ---------------------------------------------------------------------------

\* the largest max_attempts a decorator is built with
MaxAttempts == 3

\* what an invocation of the wrapped function returns
FuncValues == {"success", "other"}

\* what an invocation of the wrapped function raises: Exceptions and a
\* BaseException that is no Exception
FuncErrors ==
  {Exception("ValueError", "Not yet"), Exception("ValueError", "Test error"),
   Exception("NetworkError", "API failed"), Exception("KeyboardInterrupt", "")}

\* except Exception catches everything but these
BASE_EXCEPTIONS == {"KeyboardInterrupt", "SystemExit", "GeneratorExit"}

\* wrapper(*args, **kwargs) at its first line; last_exception = None
NewRetry(max_attempts) ==
  [pc |-> "loop", max_attempts |-> max_attempts, attempt |-> 0, outcomes |-> <<>>,
   last_exception |-> NoError, sleeps |-> 0, result |-> NoCall]

\* the wrapper ends by returning or raising
retry_ends(r, ending) == [r EXCEPT !.pc = "done", !.result = ending]

\* a wrapper that raises the first exception it caught
raises_first_exception(r, outcome) ==
  IF ~outcome.raised \/ outcome.value.type \in BASE_EXCEPTIONS
  THEN retry_ends([r EXCEPT !.outcomes = Append(@, outcome)], outcome)
  ELSE IF r.attempt < r.max_attempts - 1
  THEN [r EXCEPT !.pc = "sleep", !.outcomes = Append(@, outcome),
                 !.last_exception = IF @ = NoError THEN outcome.value ELSE @]
  ELSE retry_ends([r EXCEPT !.outcomes = Append(@, outcome)],
                  Raise(IF r.last_exception = NoError THEN outcome.value
                        ELSE r.last_exception))

\* The body of the for loop after func(*args, **kwargs) returned or raised: the
\* value is returned, a BaseException propagates, an Exception is remembered and
\* either slept on or, at the last attempt, raised after the break
after_invocation(r, outcome) ==
  IF ~outcome.raised \/ outcome.value.type \in BASE_EXCEPTIONS
  THEN retry_ends([r EXCEPT !.outcomes = Append(@, outcome)], outcome)
  ELSE IF r.attempt < r.max_attempts - 1
  THEN [r EXCEPT !.pc = "sleep", !.outcomes = Append(@, outcome),
                 !.last_exception = outcome.value]
  ELSE retry_ends([r EXCEPT !.outcomes = Append(@, outcome),
                            !.last_exception = outcome.value],
                  Raise(outcome.value))

\* what a wrapped call never touches
RetryFrame ==
  UNCHANGED <<files, context, target, stats, op, prioritized, selected, earlier, result,
              dependencies, threads, detected, held, name, classified, analysis, limiter, walk>>

\* a caller about to call a function decorated with retry_with_backoff(n)
RetryInit ==
  /\ files = <<>>
  /\ context = Context(Absent, Absent)
  /\ target = PyNone
  /\ stats = NewStats
  /\ op = "new"
  /\ prioritized = NoCall
  /\ selected = NoCall
  /\ earlier = NoRun
  /\ result = NoResult
  /\ dependencies = NoDependencies
  /\ threads = [t \in Threads |-> Idle]
  /\ detected = NoCall
  /\ held = NoneHeld
  /\ NoClassifier
  /\ analysis = NoAnalysis
  /\ walk = NoWalk
  /\ limiter = NoManager
  /\ retry \in {NewRetry(n) : n \in 0..MaxAttempts}

\* for attempt in range(max_attempts): try: return func(*args, **kwargs) ...
InvokeFunc ==
  /\ retry.pc = "loop"
  /\ retry.attempt < retry.max_attempts
  /\ \/ \E v \in FuncValues : retry' = after_invocation(retry, Ok(v))
     \/ \E e \in FuncErrors : retry' = after_invocation(retry, Raise(e))
  /\ RetryFrame

\* time.sleep(delay) and the next round of the loop
SleepBeforeRetry ==
  /\ retry.pc = "sleep"
  /\ retry' = [retry EXCEPT !.pc = "loop", !.attempt = @ + 1, !.sleeps = @ + 1]
  /\ RetryFrame

\* raise last_exception after a loop that never ran: last_exception is None,
\* and raising None is a TypeError
RaiseLastException ==
  /\ retry.pc = "loop"
  /\ retry.attempt >= retry.max_attempts
  /\ retry' = retry_ends(retry, Raise(Exception("TypeError",
                                                "exceptions must derive from BaseException")))
  /\ RetryFrame

RetryNext ==
  \/ InvokeFunc
  \/ SleepBeforeRetry
  \/ RaiseLastException

RetrySpec == RetryInit /\ [][RetryNext]_vars

\* ---------------------------------------------------------------------------
\* async_github_client.py: AsyncRateLimitManager
\* ---------------------------------------------------------------------------

\* Config.RATE_LIMIT_BUFFER
RATE_LIMIT_BUFFER == 5

\* the asyncio tasks that share one manager
Tasks == {1, 2}

\* the required_calls arguments of execute_api_call
RequiredCalls == {1, 2}

\* int() of a header value made of decimal digits
DigitValue(c) == CHOOSE d \in 0..9 : SubSeq("0123456789", d + 1, d + 1) = c

RECURSIVE int_of_digits(_, _)
int_of_digits(text, acc) ==
  IF text = "" THEN acc
  ELSE int_of_digits(Tail(text), 10 * acc + DigitValue(SubSeq(text, 1, 1)))

\* the rate-limit headers of a response, each a decimal string or Absent
Headers ==
  {[limit |-> l, remaining |-> r, reset |-> s] :
     l \in {Absent, PyStr("60")},
     r \in {Absent, PyStr("0"), PyStr("6"), PyStr("59")},
     s \in {Absent, PyStr("7200")}}

\* a response without headers
NoHeaders == [limit |-> Absent, remaining |-> Absent, reset |-> Absent]

\* int(headers.get(key, default))
header_int(header, default) ==
  IF header = Absent THEN default ELSE int_of_digits(header.v, 0)

\* a task that has not called the manager
IdleTask == [pc |-> "idle", fn |-> "", required_calls |-> 0, headers |-> NoHeaders]

\* AsyncRateLimitManager.__init__, with the clock at 0
NewManager(token) ==
  [token |-> token, limit |-> IF token THEN 5000 ELSE 60,
   remaining |-> IF token THEN 5000 ELSE 60, reset_time |-> 3600, now |-> 0,
   api_call_lock |-> 0, tasks |-> [t \in Tasks |-> IdleTask]]

\* AsyncRateLimitManager.update_from_headers; nothing else holds self._lock
\* across an await, so its body runs undisturbed
update_from_headers(m, headers) ==
  [m EXCEPT !.limit = header_int(headers.limit, m.limit),
            !.remaining = header_int(headers.remaining, m.remaining),
            !.reset_time = header_int(headers.reset, m.reset_time)]

\* AsyncRateLimitManager.check_rate_limit
check_rate_limit(m, required_calls) == m.remaining >= required_calls + RATE_LIMIT_BUFFER

\* AsyncRateLimitManager.consume_calls
consume_calls(m, count) == [m EXCEPT !.remaining = Max(0, m.remaining - count)]

\* AsyncRateLimitManager.wait_time_until_reset
wait_time_until_reset(m) == Max(0, m.reset_time - m.now)

\* the task t of m moves to pc
task_at(m, t, pc) == [m EXCEPT !.tasks[t].pc = pc]

\* execute_api_call leaves its async with block: the lock is released
leaves_api_call(m, t, pc) == [task_at(m, t, pc) EXCEPT !.api_call_lock = 0]

\* execute_api_call after the wait, from the second check on
rechecked(m, t) ==
  IF check_rate_limit(m, m.tasks[t].required_calls) THEN task_at(m, t, "calling")
  ELSE leaves_api_call(m, t, "raised")

\* execute_api_call from the first check to its first suspension
checked(m, t) ==
  IF check_rate_limit(m, m.tasks[t].required_calls) THEN task_at(m, t, "calling")
  ELSE IF wait_time_until_reset(m) > 0 /\ m.remaining <= RATE_LIMIT_BUFFER
  THEN task_at(m, t, "sleeping")
  ELSE rechecked(m, t)

\* an execute_api_call that takes the server's count as it is
trusts_server_count(m, t, headers) ==
  leaves_api_call([update_from_headers(m, headers) EXCEPT !.tasks[t].headers = headers],
                  t, "returned")

\* execute_api_call after api_call_func returned a response with headers
response_received(m, t, headers) ==
  leaves_api_call([consume_calls(update_from_headers(m, headers),
                                 m.tasks[t].required_calls)
                     EXCEPT !.tasks[t].headers = headers],
                  t, "returned")

\* track_safe_api_call(response)
track_safe_api_call(m, t, headers) ==
  task_at([consume_calls(IF headers = NoHeaders THEN m ELSE update_from_headers(m, headers), 1)
             EXCEPT !.tasks[t].headers = headers],
          t, "returned")

\* what the manager's tasks never touch
LimiterFrame ==
  UNCHANGED <<files, context, target, stats, op, prioritized, selected, earlier, result,
              dependencies, threads, detected, held, name, classified, analysis, retry,
              walk>>

\* a client with a new manager and tasks about to call it
LimiterInit ==
  /\ files = <<>>
  /\ context = Context(Absent, Absent)
  /\ target = PyNone
  /\ stats = NewStats
  /\ op = "new"
  /\ prioritized = NoCall
  /\ selected = NoCall
  /\ earlier = NoRun
  /\ result = NoResult
  /\ dependencies = NoDependencies
  /\ threads = [t \in Threads |-> Idle]
  /\ detected = NoCall
  /\ held = NoneHeld
  /\ NoClassifier
  /\ analysis = NoAnalysis
  /\ retry = NoRetry
  /\ walk = NoWalk
  /\ limiter \in {NewManager(token) : token \in BOOLEAN}

\* execute_api_call(api_call_func, required_calls) once self._api_call_lock is
\* free: the lock is taken and the rate limit checked
ExecuteApiCall(t) ==
  /\ limiter.tasks[t].pc = "idle"
  /\ limiter.api_call_lock = 0
  /\ \E k \in RequiredCalls :
       limiter' = checked([limiter EXCEPT !.api_call_lock = t,
                                          !.tasks[t].fn = "execute_api_call",
                                          !.tasks[t].required_calls = k], t)
  /\ LimiterFrame

\* await asyncio.sleep(min(wait_time, 300)) ends; the limit is checked again
RateLimitWaitEnds(t) ==
  /\ limiter.tasks[t].pc = "sleeping"
  /\ limiter' = rechecked([limiter EXCEPT !.now = @ + Min(wait_time_until_reset(limiter), 300)],
                          t)
  /\ LimiterFrame

\* response = await api_call_func() returns; steps 3 and the return follow
ApiCallReturns(t) ==
  /\ limiter.tasks[t].pc = "calling"
  /\ \E headers \in Headers : limiter' = response_received(limiter, t, headers)
  /\ LimiterFrame

\* await api_call_func() raises: nothing is consumed
ApiCallRaises(t) ==
  /\ limiter.tasks[t].pc = "calling"
  /\ limiter' = leaves_api_call(limiter, t, "raised")
  /\ LimiterFrame

\* a safe-mode method awaits self.session.get(url, raise_on_error=False)
SafeModeRequest(t) ==
  /\ limiter.tasks[t].pc = "idle"
  /\ limiter' = [task_at(limiter, t, "requesting") EXCEPT !.tasks[t].fn = "track_safe_api_call"]
  /\ LimiterFrame

\* the safe-mode response arrives and track_safe_api_call(response) runs
TrackSafeApiCall(t) ==
  /\ limiter.tasks[t].pc = "requesting"
  /\ \E headers \in Headers : limiter' = track_safe_api_call(limiter, t, headers)
  /\ LimiterFrame

LimiterNext ==
  \E t \in Tasks :
    \/ ExecuteApiCall(t)
    \/ RateLimitWaitEnds(t)
    \/ ApiCallReturns(t)
    \/ ApiCallRaises(t)
    \/ SafeModeRequest(t)
    \/ TrackSafeApiCall(t)

LimiterSpec == LimiterInit /\ [][LimiterNext]_vars

\* ---------------------------------------------------------------------------
\* async_github_client.py: AsyncGitHubClient.get_repository_contents
\* ---------------------------------------------------------------------------

\* the deepest nesting of directories in a repository
MaxDepth == 101

\* max_concurrent of AsyncGitHubClient.__init__
max_concurrent(token) == IF token THEN 100 ELSE 20

\* The repositories: a directory at nesting level below tree_depth holds one
\* file and one subdirectory, the deepest directory holds one file.
\* get_repository_contents(owner, repo) at its first line on a new client;
\* level counts the calls of the chain that are inside async with self._semaphore
NewWalk(token, tree_depth, recursive) ==
  [pc |-> "acquire", token |-> token, tree_depth |-> tree_depth, recursive |-> recursive,
   permits |-> max_concurrent(token), level |-> 0, all_contents |-> 0]

\* the for loop over the listing of the directory at w.level: the file is
\* appended, then the subdirectory, into which the call recurses
listing_received(w) ==
  IF w.level < w.tree_depth
  THEN IF w.recursive
       THEN [w EXCEPT !.all_contents = @ + 2, !.level = @ + 1, !.pc = "acquire"]
       ELSE [w EXCEPT !.all_contents = @ + 2, !.pc = "return"]
  ELSE [w EXCEPT !.all_contents = @ + 1, !.pc = "return"]

\* what a walk never touches
WalkFrame ==
  UNCHANGED <<files, context, target, stats, op, prioritized, selected, earlier, result,
              dependencies, threads, detected, held, name, classified, analysis, retry,
              limiter>>

\* a task about to list a repository through a new client
WalkInit ==
  /\ files = <<>>
  /\ context = Context(Absent, Absent)
  /\ target = PyNone
  /\ stats = NewStats
  /\ op = "new"
  /\ prioritized = NoCall
  /\ selected = NoCall
  /\ earlier = NoRun
  /\ result = NoResult
  /\ dependencies = NoDependencies
  /\ threads = [t \in Threads |-> Idle]
  /\ detected = NoCall
  /\ held = NoneHeld
  /\ NoClassifier
  /\ analysis = NoAnalysis
  /\ retry = NoRetry
  /\ limiter = NoManager
  /\ walk \in {NewWalk(token, tree_depth, recursive) :
                 token \in BOOLEAN, tree_depth \in 0..MaxDepth, recursive \in BOOLEAN}

\* async with self._semaphore: entered once a permit is free
AcquireSemaphore ==
  /\ walk.pc = "acquire"
  /\ walk.permits > 0
  /\ walk' = [walk EXCEPT !.permits = @ - 1, !.pc = "request"]
  /\ WalkFrame

\* the API call for the directory returns its listing, which is looped over
ContentsReturned ==
  /\ walk.pc = "request"
  /\ walk' = listing_received(walk)
  /\ WalkFrame

\* return all_contents: the call leaves async with self._semaphore, and its
\* caller, whose listing ended with this directory, goes on to return
ReturnContents ==
  /\ walk.pc = "return"
  /\ walk' = [walk EXCEPT !.permits = @ + 1,
                          !.level = IF @ = 0 THEN 0 ELSE @ - 1,
                          !.pc = IF walk.level = 0 THEN "returned" ELSE "return"]
  /\ WalkFrame

WalkNext ==
  \/ AcquireSemaphore
  \/ ContentsReturned
  \/ ReturnContents

\* the event loop resumes a coroutine that can go on
WalkSpec == WalkInit /\ [][WalkNext]_vars /\ WF_vars(WalkNext)
\* ------------------------------------------------------------------ properties

\* the path values of a list of records
Paths(records) == [i \in 1..Len(records) |-> records[i].path]

\* the priority values of a list of records
Priorities(records) == [i \in 1..Len(records) |-> records[i].priority]

\* the three input keys of a record
InputKeys(record) == <<record.path, record.size, record.content>>

\* the tier a priority falls in, 1 being the highest
TierOf(priority) ==
  IF priority >= 800 THEN 1
  ELSE IF priority >= 600 THEN 2
  ELSE IF priority >= 400 THEN 3
  ELSE 4

\* the positions of a list that hold the record
PositionsOf(records, record) == {k \in 1..Len(records) : records[k] = record}

\* the one-to-one maps from the positions of a list onto themselves
Reorderings(n) == {p \in [1..n -> 1..n] : \A i, j \in 1..n : p[i] = p[j] => i = j}

\* C1: whenever _perform_smart_selection returns for a context whose limits are
\* not negative, the sizes of the selected files add up to at most
\* max_total_size and there are at most max_files of them; a small file met when
\* the budget is used up is passed over, never added.
SelectionWithinLimits ==
  (op = "select" /\ ~selected.raised)
    => /\ SumSizes(selected.value) <= size_limit_of(context)
       /\ Len(selected.value) <= count_limit_of(context)

\* a selection under max_total_size 100 that took a file and then passed over a
\* file smaller than a tenth of the limit that no longer fits
SmallFilePassedOver ==
  /\ op = "select"
  /\ ~selected.raised
  /\ context.max_total_size = PyInt(100)
  /\ Len(selected.value) = 1
  /\ \E k \in 1..Len(prioritized.value) :
       /\ prioritized.value[k] \notin {selected.value[i] : i \in 1..Len(selected.value)}
       /\ 10 * size_of(prioritized.value[k]) < 100
       /\ SumSizes(selected.value) + size_of(prioritized.value[k]) > 100

\* C2: no record whose file name (the last component of its path) is categorised
\* skip or binary is among the files process_files returns, at any depth.
NoSkippedFileReturned ==
  (op = "process_files" /\ ~result.raised)
    => \A i \in 1..Len(result.selected) :
         result.selected[i].path.t = "str"
           => ~should_skip_file(PathName(result.selected[i].path.v))

\* the pre-filter ran to its end on the list and kept no file
NothingSurvives(input) ==
  /\ ~apply_basic_filtering(input).raised
  /\ Len(apply_basic_filtering(input).value) = 0

\* C3: when the pre-filter returns the empty list (the input was empty or every
\* file was dropped), process_files returns the empty list and the marker
\* {"error": "No valid files to process"}, raises nothing, and runs no stage
\* after the filter.
EmptyResultWhenNothingSurvives ==
  (op = "process_files" /\ NothingSurvives(files))
    => /\ ~result.raised
       /\ result.selected = <<>>
       /\ result.info = NoValidFiles
       /\ result.stages = {"filter"}

\* process_files returned for a non-empty input of which the filter kept nothing
AllFilesFilteredOut ==
  /\ op = "process_files"
  /\ files # <<>>
  /\ NothingSurvives(files)
  /\ result.info = NoValidFiles

\* C4: process_files raises for no list of dict records.
ProcessFilesNeverRaises == op = "process_files" => ~result.raised

\* C5: prioritize_files returns one record per input record, in non-increasing
\* order of priority, records of equal priority in the order of the input.
PrioritizedIsStableSort ==
  (op = "prioritize_files" /\ ~prioritized.raised)
    => /\ Len(prioritized.value) = Len(files)
       /\ \A k \in 1..(Len(prioritized.value) - 1) :
            priority_of(prioritized.value[k]) >= priority_of(prioritized.value[k + 1])
       /\ \E p \in Reorderings(Len(files)) :
            /\ \A i \in 1..Len(files) :
                 InputKeys(prioritized.value[p[i]]) = InputKeys(files[i])
            /\ \A i, j \in 1..Len(files) :
                 (i < j /\ priority_of(prioritized.value[p[i]])
                             = priority_of(prioritized.value[p[j]]))
                   => p[i] < p[j]

\* prioritize_files returned two records of equal priority in the order of the
\* input
TiedPrioritiesReturned ==
  /\ op = "prioritize_files"
  /\ ~prioritized.raised
  /\ Len(prioritized.value) = 2
  /\ priority_of(prioritized.value[1]) = priority_of(prioritized.value[2])
  /\ Paths(prioritized.value) = Paths(files)

\* C6: when the scoring of a file raises inside prioritize_files, the call
\* returns, that file is in the result with priority 100, and every other file
\* is in the result with the score it gets on its own.
ScoringFailureGetsDefault ==
  (op = "prioritize_files" /\ prioritized.failed # {})
    => /\ ~prioritized.raised
       /\ \E p \in Reorderings(Len(files)) :
            \A i \in 1..Len(files) :
              /\ InputKeys(prioritized.value[p[i]]) = InputKeys(files[i])
              /\ i \in prioritized.failed
                   => prioritized.value[p[i]].priority = PyInt(100)
              /\ i \notin prioritized.failed
                   => \E own \in {prioritize_files(<<files[i]>>, target)} :
                        /\ ~own.raised
                        /\ own.failed = {}
                        /\ Priorities(own.value) = <<prioritized.value[p[i]].priority>>

\* prioritize_files returned a list in which one file's scoring raised and
\* another file was scored
OneScoringFailed ==
  /\ op = "prioritize_files"
  /\ ~prioritized.raised
  /\ Len(files) = 2
  /\ Cardinality(prioritized.failed) = 1
  /\ \E k \in 1..2 : priority_of(prioritized.value[k]) > 100

\* C7: a second run of prioritize_files and selection on the same files, target
\* language and context selects the same paths in the same order and gives the
\* same priorities as the first run.
SecondRunRepeatsFirst ==
  (op = "select" /\ earlier.ran)
    => /\ ~selected.raised
       /\ Paths(selected.value) = Paths(earlier.selected)
       /\ Priorities(selected.value) = Priorities(earlier.selected)
       /\ Priorities(prioritized.value) = Priorities(earlier.prioritized)
       /\ Paths(prioritized.value) = Paths(earlier.prioritized)

\* a second run finished on records of which the first run left one with the
\* default priority
SecondRunAfterScoringFailure ==
  /\ op = "select"
  /\ earlier.ran
  /\ prioritized.failed # {}
  /\ Len(selected.value) = 2

\* C8: the selected files come tier by tier (>= 800, 600..799, 400..599, below
\* 400), every selected file is one of the prioritized files, and files of the
\* same tier keep the order they have in the prioritized list.
SelectionIsTierMajor ==
  (op = "select" /\ ~selected.raised)
    => /\ \A i, j \in 1..Len(selected.value) :
            i < j => TierOf(priority_of(selected.value[i]))
                       <= TierOf(priority_of(selected.value[j]))
       /\ \A i \in 1..Len(selected.value) :
            PositionsOf(prioritized.value, selected.value[i]) # {}
       /\ \A i, j \in 1..Len(selected.value) :
            (i < j /\ TierOf(priority_of(selected.value[i]))
                        = TierOf(priority_of(selected.value[j])))
              => \E a \in PositionsOf(prioritized.value, selected.value[i]) :
                   \E b \in PositionsOf(prioritized.value, selected.value[j]) : a < b

\* a selection that took files of two different tiers
TwoTiersSelected ==
  /\ op = "select"
  /\ ~selected.raised
  /\ Len(selected.value) = 2
  /\ TierOf(priority_of(selected.value[1])) < TierOf(priority_of(selected.value[2]))

\* C9: under every interleaving of two process_files calls on one FileProcessor,
\* the analysis_info a call returns reports the total_files_processed and
\* files_filtered of that call's own input.
EachCallReportsOwnCounts ==
  \A t \in Threads :
    (At(t, "returned") /\ threads[t].valid_files # <<>>)
      => /\ threads[t].total_files_processed = Len(threads[t].files)
         /\ threads[t].files_filtered
              = Len(threads[t].files) - Len(threads[t].valid_files)

\* C10: the list extract_dependencies returns is in ascending order without
\* duplicates, has at most 30 entries, each 2 to 49 characters long and not
\* starting with a dot; it is empty for a language without a registered parser.
DependenciesSortedAndBounded ==
  op = "extract_dependencies"
    => /\ \A i \in 1..(Len(dependencies.value) - 1) :
            StrLess(dependencies.value[i], dependencies.value[i + 1])
       /\ Len(dependencies.value) <= 30
       /\ \A i \in 1..Len(dependencies.value) :
            /\ Len(dependencies.value[i]) >= 2
            /\ Len(dependencies.value[i]) <= 49
            /\ ~StartsWith(dependencies.value[i], ".")
       /\ dependencies.language \notin EXTRACTOR_LANGUAGES => dependencies.value = <<>>

\* extract_dependencies cut a longer list down to 30 names
ThirtyDependenciesReturned ==
  /\ op = "extract_dependencies"
  /\ dependencies.language = "python"
  /\ Len(dependencies.value) = 30


\* the name has ASCII characters only
IsAscii(s) == \A i \in 1..Len(s) : SubSeq(s, i, i) # DOTLESS_I

\* C11: every classifier entry point gives the same answer for a filename of
\* ASCII characters, for the filename converted to lower case and for it
\* converted to upper case.
AsciiClassificationIgnoresCase ==
  (classified.fn # "" /\ IsAscii(name)) =>
    /\ classified.value = classified.lower
    /\ classified.value = classified.upper

\* a mixed-case ASCII name was classified by a rule that looks at the name
MixedCaseNameClassified ==
  /\ classified.fn = "get_file_category"
  /\ IsAscii(name)
  /\ name # Lower(name)
  /\ name # Upper(name)
  /\ classified.value \notin {"text", "unknown"}

\* C11 as stated: the same for every filename, whatever its characters.
ClassificationIgnoresCase ==
  classified.fn # "" =>
    /\ classified.value = classified.lower
    /\ classified.value = classified.upper

\* C12: get_file_category answers "skip" for every name of the fixed skip set.
SkipSetNamesAreSkipped ==
  (classified.fn = "get_file_category" /\ name \in SKIP_FILES) =>
    classified.value = "skip"

\* C13: is_binary_file is true exactly for the category "binary", and
\* should_skip_file is true exactly for the categories "binary" and "skip".
PredicatesFollowCategory ==
  /\ classified.fn = "is_binary_file" =>
       (classified.value <=> classified.category = "binary")
  /\ classified.fn = "should_skip_file" =>
       (classified.value <=> classified.category \in {"binary", "skip"})

\* the record is among the files that passed the pre-filter
PassedFilter(file_info) ==
  \E j \in 1..Len(result.valid_files) : result.valid_files[j] = file_info

\* the record is a zero-byte file with a valid path
IsEmptyFile(file_info) ==
  /\ file_info.path.t = "str"
  /\ ~validate_file_path(file_info.path).raised
  /\ validate_file_path(file_info.path).value
  /\ file_info.size = PyInt(0)

\* C14: a zero-byte file with a valid path passes the pre-filter exactly when
\* its filename is __init__.py, .gitkeep or .keep, at any depth, the top
\* directory included.
EmptyFilePassesIffAllowListed ==
  (op = "process_files" /\ ~result.raised) =>
    \A i \in 1..Len(files) :
      IsEmptyFile(files[i]) =>
        (PassedFilter(files[i]) <=> is_important_empty_file(files[i].path.v))

\* the sum of the eight entries of a priority_breakdown
BreakdownSum(b) ==
  b.base + b.language + b.importance + b.framework + b.complexity + b.size + b.content
  + b.depth_penalty

\* C15: every record prioritize_files returns has a priority of at least 10, and
\* a record with a priority_breakdown has the priority max(10, sum of the eight
\* entries of the breakdown).
PriorityIsFlooredSum ==
  (op = "prioritize_files" /\ ~prioritized.raised) =>
    \A i \in 1..Len(prioritized.value) :
      /\ prioritized.value[i].priority.t = "int"
      /\ prioritized.value[i].priority.v >= 10
      /\ prioritized.value[i].priority_breakdown.t = "dict" =>
           prioritized.value[i].priority.v
             = Max(10, BreakdownSum(prioritized.value[i].priority_breakdown.v))

\* a returned record whose factors sum to less than 10
FlooredRecordReturned ==
  /\ op = "prioritize_files"
  /\ ~prioritized.raised
  /\ \E i \in 1..Len(prioritized.value) :
       /\ prioritized.value[i].priority_breakdown.t = "dict"
       /\ BreakdownSum(prioritized.value[i].priority_breakdown.v) < 10
       /\ prioritized.value[i].priority.v = 10

\* C16: prioritize_files leaves its input records as they were: the list the
\* caller passed holds the same records after the call as before it.
InputRecordsUntouched == [][op' = "prioritize_files" => files' = files]_vars

\* C17: an analysis_info that process_files returned stays as it was returned,
\* its processing_stats entry included, whatever is called on the processor later.
ReturnedInfoIsReadOnly == held.kept => held.info = held.returned

\* C18: every value of the map detect_languages returns lies between 0 and 100
\* percent (values are held in tenths of a percent).
LanguageSharesWithinRange ==
  (op = "detect_languages" /\ ~detected.raised) =>
    \A i \in 1..Len(detected.value) :
      /\ detected.value[i][1] >= 0
      /\ detected.value[i][1] <= 1000

\* detect_languages moved points from a dominating language without code files
\* to a code language
SharesRedistributed ==
  /\ op = "detect_languages"
  /\ ~detected.raised
  /\ Len(detected.value) >= 2
  /\ detected.value # SortedDesc(language_percentages(language_stats(files).value))

FailureFallsBackOnce ==
  (analysis.pc = "returned" /\ analysis.fallback /\ analysis.failed
   /\ ~parse_github_url(analysis.repo_url).raised) =>
    /\ analysis.fallback_calls = 1
    /\ analysis.returned.fallback_mode
    /\ analysis.returned.analysis_method \in {"fallback", "fallback_failed"}
    /\ analysis.returned.success <=> analysis.returned.analysis_method = "fallback"

\* with fallback on, the ZIP attempt and the API attempt both raised and the
\* fallback ran through
BothAttemptsFailedWithFallback ==
  /\ analysis.pc = "returned"
  /\ analysis.fallback
  /\ analysis.failed
  /\ analysis.zip_error # NoError
  /\ analysis.token
  /\ analysis.fallback_calls = 1
  /\ analysis.returned.success

\* the sizes of the files add up to 90% of the byte budget or more
NinetyPercentUsed(selected_files, size_limit) ==
  SumSizes(selected_files) >= size_limit - (size_limit \div 10)

\* C22: once the sizes of the files selected so far add up to 90% of
\* max_total_size, no further file is selected, of the same tier or of a later one.
SelectionStopsAtNinetyPercent ==
  (op = "select" /\ ~selected.raised) =>
    \A i \in 1..(Len(selected.value) - 1) :
      ~NinetyPercentUsed(SubSeq(selected.value, 1, i), size_limit_of(context))

\* C23: a file turned down for its size does not end its tier: when the
\* selection ended with neither limit reached, every file that still fits the
\* byte budget was selected.
SizeRejectionKeepsTier ==
  (/\ op = "select"
   /\ ~selected.raised
   /\ Len(selected.value) < count_limit_of(context)
   /\ ~NinetyPercentUsed(selected.value, size_limit_of(context))) =>
    \A k \in 1..Len(prioritized.value) :
      SumSizes(selected.value) + size_of(prioritized.value[k]) <= size_limit_of(context)
        => \E i \in 1..Len(selected.value) : selected.value[i] = prioritized.value[k]

\* C24: the set of candidate names extract_dependencies collects never holds
\* more than 100 names (the set only grows, so its size when the loop is left
\* is the largest it had).
CandidatesCappedAtHundred ==
  op = "extract_dependencies" => dependencies.candidates <= 100

\* C29: after every process_files call that returned, stats["files_selected"]
\* is the number of files the call returned, and so is at most
\* total_files_processed minus files_filtered.
FilesSelectedCountsReturned ==
  (op \in {"process_files", "process_empty_list"} /\ ~result.raised) =>
    /\ stats.files_selected = Len(result.selected)
    /\ stats.files_selected <= stats.total_files_processed - stats.files_filtered

\* a test file by the words of get_file_priority
IsTestName(filepath) ==
  Contains(Lower(PathName(filepath)), "test") \/ Contains(Lower(PathName(filepath)), "spec")

\* two non-empty paths the test penalty alone tells apart
SameButForTest(test_path, other_path) ==
  /\ test_path # "" /\ other_path # ""
  /\ IsTestName(test_path) /\ ~IsTestName(other_path)
  /\ get_file_category(Lower(PathName(test_path))) = get_file_category(Lower(PathName(other_path)))
  /\ Count(test_path, "/") = Count(other_path, "/")
  /\ Get(SPECIAL_BONUSES, Lower(PathName(test_path)), 0) = 0
  /\ Get(SPECIAL_BONUSES, Lower(PathName(other_path)), 0) = 0

\* C25: the test-file penalty of get_file_priority never increases a priority:
\* of two non-empty paths of the same category and depth without a special name
\* the one whose file name contains "test" or "spec" gets at most the priority
\* of the other, and every priority is at least 10.
TestPenaltyNeverRaises ==
  classified.fn = "get_file_priority" =>
    /\ classified.value >= 10
    /\ \A other \in ClassifierNames :
         SameButForTest(name, other) => classified.value <= get_file_priority(other)

\* the analysis left both download attempts behind with both of them failed
BothDownloadsFailed ==
  /\ analysis.pc \in {"returned", "fallback"}
  /\ analysis.zip_error # NoError
  /\ analysis.api_error # NoError

\* C26: in auto mode analyze_with_api is invoked at most once per analysis, only
\* after analyze_with_zip raised in that analysis and with a token; without a
\* token no API attempt follows, and when the API attempt fails too the error
\* carried forward is the error of the ZIP attempt.
ApiOnlyAfterFailedZip ==
  (analysis.pc # "idle" /\ analysis.method = "auto") =>
    /\ analysis.api_calls <= 1
    /\ analysis.zip_calls <= 1
    /\ (analysis.api_calls = 1 \/ analysis.pc = "api") =>
         /\ analysis.zip_calls = 1
         /\ analysis.zip_error # NoError
         /\ analysis.token
    /\ ~analysis.token => analysis.api_calls = 0
    /\ BothDownloadsFailed =>
         /\ analysis.failed
         /\ analysis.original_error = analysis.zip_error

\* both attempts of an auto-mode analysis failed, with different errors
ZipErrorCarriedForward ==
  /\ analysis.pc # "idle" /\ analysis.method = "auto"
  /\ BothDownloadsFailed
  /\ analysis.api_calls = 1
  /\ analysis.api_error # analysis.zip_error
  /\ analysis.original_error = analysis.zip_error

\* the wrapper ended as the invocation did
EndsAs(ending, outcome) ==
  /\ ending.raised = outcome.raised
  /\ ending.value = outcome.value

\* the invocations of the wrapped function that raised an Exception
FailedInvocations(outcomes) ==
  {i \in 1..Len(outcomes) :
     outcomes[i].raised /\ outcomes[i].value.type \notin BASE_EXCEPTIONS}

\* C21: a function wrapped by retry_with_backoff(max_attempts = n), n >= 1, is
\* invoked at most n times per call; the wrapper returns the value of the first
\* successful invocation without invoking the function again, and after n
\* failures in a row it raises the exception of the last invocation.
RetryInvokesAtMostMaxAttempts ==
  (retry.pc # "idle" /\ retry.max_attempts >= 1) =>
    /\ Len(retry.outcomes) <= retry.max_attempts
    /\ \A i \in 1..(Len(retry.outcomes) - 1) : i \in FailedInvocations(retry.outcomes)
    /\ (Len(retry.outcomes) > 0 /\ ~retry.outcomes[Len(retry.outcomes)].raised) =>
         /\ retry.pc = "done"
         /\ EndsAs(retry.result, retry.outcomes[Len(retry.outcomes)])
    /\ Cardinality(FailedInvocations(retry.outcomes)) = retry.max_attempts =>
         /\ retry.pc = "done"
         /\ EndsAs(retry.result, retry.outcomes[retry.max_attempts])
    /\ (retry.pc = "done" /\ retry.result.raised) =>
         \/ Cardinality(FailedInvocations(retry.outcomes)) = retry.max_attempts
         \/ retry.result.value.type \in BASE_EXCEPTIONS

\* three invocations failed, the first and the last with different exceptions
ThreeAttemptsFailed ==
  /\ retry.pc = "done"
  /\ retry.max_attempts = 3
  /\ Cardinality(FailedInvocations(retry.outcomes)) = 3
  /\ retry.outcomes[1] # retry.outcomes[3]
  /\ EndsAs(retry.result, retry.outcomes[3])

\* the manager's view of the quota
Quota(m) == <<m.remaining, m.limit, m.reset_time>>

\* C27: while a task is between the rate-limit check and the post-response
\* update of its execute_api_call, no other task changes the manager's
\* remaining, limit or reset_time.
CheckCallUpdateIsAtomic ==
  [][\A t \in Tasks :
       (limiter.tasks[t].pc = "calling" /\ limiter'.tasks[t].pc = "calling")
         => Quota(limiter') = Quota(limiter)]_vars

\* C30: after a successful execute_api_call whose response carried the header
\* x-ratelimit-remaining = r, with no other call in between, the manager's
\* remaining is r.
RemainingIsServerReported ==
  \A t \in Tasks :
    (/\ limiter.tasks[t].pc = "returned"
     /\ limiter.tasks[t].fn = "execute_api_call"
     /\ limiter.tasks[t].headers.remaining # Absent
     /\ \A u \in Tasks \ {t} : limiter.tasks[u].pc = "idle")
      => limiter.remaining = int_of_digits(limiter.tasks[t].headers.remaining.v, 0)

\* C28: get_repository_contents with recursive=True eventually returns for
\* every finite directory tree when every API call returns: no call of the
\* recursion waits forever for the client's semaphore.
ContentsWalkReturns == <>(walk.pc = "returned")
====
